---------------------------- MODULE Spec2Model ----------------------------
(* A model of proto2ue's type-mapping and name-resolution engine:            *)
(* TypeMapper (src/src/proto2ue/type_mapper.py) and NameResolver              *)
(* (src/src/proto2ue/naming.py).                                              *)
(*                                                                            *)
(* Python strings are modelled as sequences of one-character strings, so      *)
(* that prefix stripping, splitting, PascalCase conversion and identifier     *)
(* sanitising are computed character by character as the code computes them.  *)
EXTENDS Integers, Sequences, FiniteSets, TLC

----------------------------------------------------------------------------
(* Characters and elementary string functions                                 *)

LowerChars == <<"a","b","c","d","e","f","g","h","i","j","k","l","m",
                "n","o","p","q","r","s","t","u","v","w","x","y","z">>

UpperChars == <<"A","B","C","D","E","F","G","H","I","J","K","L","M",
                "N","O","P","Q","R","S","T","U","V","W","X","Y","Z">>

DigitChars == <<"0","1","2","3","4","5","6","7","8","9">>

Range(s) == { s[i] : i \in DOMAIN s }

Digits == Range(DigitChars)

\* str.isdigit() of one character
IsDigit(c) == c \in Digits

\* the character class [0-9A-Za-z_] of the sanitising regular expressions
WordChars == Range(LowerChars) \cup Range(UpperChars) \cup Range(DigitChars) \cup {"_"}

IsWordChar(c) == c \in WordChars

\* the character class [_\s] of _PASCAL_CASE_PATTERN
PascalSeparators == {"_", " ", "\t", "\n"}

\* str.upper() of one character
UpperOf == [ c \in Range(LowerChars) |-> UpperChars[CHOOSE i \in DOMAIN LowerChars : LowerChars[i] = c] ]

Upper(c) == IF c \in DOMAIN UpperOf THEN UpperOf[c] ELSE c

\* str(n) for a natural number
RECURSIVE Decimal(_)
Decimal(n) ==
    IF n < 10 THEN << DigitChars[n + 1] >>
    ELSE Decimal(n \div 10) \o << DigitChars[(n % 10) + 1] >>

\* s.startswith(p)
StartsWith(s, p) == Len(p) <= Len(s) /\ SubSeq(s, 1, Len(p)) = p

\* s[n:]
DropFirst(s, n) == SubSeq(s, n + 1, Len(s))

\* str.strip(chars): leading and trailing characters of the set removed
RECURSIVE StripLeft(_, _)
StripLeft(s, junk) ==
    IF s # << >> /\ s[1] \in junk THEN StripLeft(Tail(s), junk) ELSE s

RECURSIVE StripRight(_, _)
StripRight(s, junk) ==
    IF s # << >> /\ s[Len(s)] \in junk THEN StripRight(SubSeq(s, 1, Len(s) - 1), junk) ELSE s

\* str.strip(): whitespace removed at both ends
Strip(s) == StripRight(StripLeft(s, {" ", "\t", "\n"}), {" ", "\t", "\n"})

\* str.strip("_")
StripUnderscores(s) == StripRight(StripLeft(s, {"_"}), {"_"})

\* [part for part in re.split(seps, s) if part]: the non-empty pieces of s
\* between characters of the set seps (cur is the piece being read)
RECURSIVE SplitNonEmpty(_, _, _)
SplitNonEmpty(s, seps, cur) ==
    IF s = << >> THEN (IF cur = << >> THEN << >> ELSE << cur >>)
    ELSE IF s[1] \in seps
         THEN (IF cur = << >> THEN << >> ELSE << cur >>) \o SplitNonEmpty(Tail(s), seps, << >>)
         ELSE SplitNonEmpty(Tail(s), seps, Append(cur, s[1]))

\* "".join(parts)
RECURSIVE Join(_)
Join(parts) == IF parts = << >> THEN << >> ELSE Head(parts) \o Join(Tail(parts))

\* re.sub(r"[^0-9A-Za-z_]", "_", s)
ReplaceNonWord(s) == [ i \in DOMAIN s |-> IF IsWordChar(s[i]) THEN s[i] ELSE "_" ]

\* re.sub(r"[\\/]+", "_", s)
RECURSIVE ReplacePathSeparators(_)
ReplacePathSeparators(s) ==
    IF s = << >> THEN << >>
    ELSE IF s[1] \in {"/", "\\"}
         THEN << "_" >> \o ReplacePathSeparators(StripLeft(s, {"/", "\\"}))
         ELSE << s[1] >> \o ReplacePathSeparators(Tail(s))

\* re.sub(r"_+", "_", s)
RECURSIVE CollapseUnderscores(_)
CollapseUnderscores(s) ==
    IF s = << >> THEN << >>
    ELSE IF s[1] = "_"
         THEN << "_" >> \o CollapseUnderscores(StripLeft(s, {"_"}))
         ELSE << s[1] >> \o CollapseUnderscores(Tail(s))

\* the largest index of character c in s, 0 when absent (str.rfind, 1-based)
LastIndexOf(s, c) ==
    IF \E i \in DOMAIN s : s[i] = c
    THEN CHOOSE i \in DOMAIN s : s[i] = c /\ \A j \in DOMAIN s : s[j] = c => j <= i
    ELSE 0

\* os.path.splitext(p)[0]: the extension starts at the last dot of the last
\* path component, unless only dots precede it in that component
SplitExtRoot(p) ==
    LET sepIndex == LastIndexOf(p, "/")
        dotIndex == LastIndexOf(p, ".")
    IN  IF dotIndex > sepIndex
           /\ \E k \in (sepIndex + 1) .. (dotIndex - 1) : p[k] # "."
        THEN SubSeq(p, 1, dotIndex - 1)
        ELSE p


----------------------------------------------------------------------------
(* Values shared by the model                                                 *)

\* Python's None where a string is expected: no string is equal to it, since
\* every string is a sequence of one-character strings
None == << "None" >>

\* bool(s) of an Optional[str]: neither None nor empty
Truthy(s) == s # None /\ s # << >>

\* d[k] = v on a dictionary modelled as a function
Put(d, k, v) == [ x \in DOMAIN d \cup {k} |-> IF x = k THEN v ELSE d[x] ]

EmptyDict == << >>

----------------------------------------------------------------------------
(* Program constants                                                          *)

DEFAULT_RESERVED_IDENTIFIERS ==
    { <<"F","V","e","c","t","o","r">>,
      <<"F","V","e","c","t","o","r","2","D">>,
      <<"F","V","e","c","t","o","r","3","d">>,
      <<"F","V","e","c","t","o","r","4">>,
      <<"F","V","e","c","t","o","r","4","d">>,
      <<"E","V","e","c","t","o","r">>,
      <<"E","V","e","c","t","o","r","2","D">>,
      <<"E","V","e","c","t","o","r","3","d">>,
      <<"E","V","e","c","t","o","r","4">>,
      <<"E","V","e","c","t","o","r","4","d">>,
      <<"E","V","e","c","t","o","r","S","t","a","t","e">> }

SCALAR_MAPPING ==
    [ s \in { <<"d","o","u","b","l","e">>,
                <<"f","l","o","a","t">>,
                <<"i","n","t","6","4">>,
                <<"u","i","n","t","6","4">>,
                <<"i","n","t","3","2">>,
                <<"f","i","x","e","d","6","4">>,
                <<"f","i","x","e","d","3","2">>,
                <<"b","o","o","l">>,
                <<"s","t","r","i","n","g">>,
                <<"b","y","t","e","s">>,
                <<"u","i","n","t","3","2">>,
                <<"s","f","i","x","e","d","3","2">>,
                <<"s","f","i","x","e","d","6","4">>,
                <<"s","i","n","t","3","2">>,
                <<"s","i","n","t","6","4">> } |->
        CASE s = <<"d","o","u","b","l","e">> -> <<"d","o","u","b","l","e">>
          [] s = <<"f","l","o","a","t">> -> <<"f","l","o","a","t">>
          [] s = <<"i","n","t","6","4">> -> <<"i","n","t","6","4">>
          [] s = <<"u","i","n","t","6","4">> -> <<"u","i","n","t","6","4">>
          [] s = <<"i","n","t","3","2">> -> <<"i","n","t","3","2">>
          [] s = <<"f","i","x","e","d","6","4">> -> <<"u","i","n","t","6","4">>
          [] s = <<"f","i","x","e","d","3","2">> -> <<"u","i","n","t","3","2">>
          [] s = <<"b","o","o","l">> -> <<"b","o","o","l">>
          [] s = <<"s","t","r","i","n","g">> -> <<"F","S","t","r","i","n","g">>
          [] s = <<"b","y","t","e","s">> -> <<"T","A","r","r","a","y","<","u","i","n","t","8",">">>
          [] s = <<"u","i","n","t","3","2">> -> <<"u","i","n","t","3","2">>
          [] s = <<"s","f","i","x","e","d","3","2">> -> <<"i","n","t","3","2">>
          [] s = <<"s","f","i","x","e","d","6","4">> -> <<"i","n","t","6","4">>
          [] s = <<"s","i","n","t","3","2">> -> <<"i","n","t","3","2">>
          [] s = <<"s","i","n","t","6","4">> -> <<"i","n","t","6","4">> ]

COLLISION_INSERT == <<"P","r","o","t","o">>

\* the defaults of TypeMapper.__init__
message_prefix == <<"F">>

enum_prefix == <<"E">>

optional_wrapper_prefix == <<"F","P","r","o","t","o","O","p","t","i","o","n","a","l">>

array_wrapper == <<"T","A","r","r","a","y">>

map_wrapper == <<"T","M","a","p">>

----------------------------------------------------------------------------
(* Name composition (TypeMapper)                                              *)

\* TypeMapper._to_pascal_case
to_pascal_case(name) ==
    LET parts == SplitNonEmpty(name, PascalSeparators, << >>)
    IN  IF name = << >> THEN name
        ELSE IF parts = << >> THEN name
        ELSE Join([ i \in DOMAIN parts |-> << Upper(parts[i][1]) >> \o Tail(parts[i]) ])

\* _relative_symbol_path as it would be if it never removed the package
relative_symbol_path_with_package(full_name, package) ==
    IF full_name = << >> THEN << >>
    ELSE SplitNonEmpty(full_name, {"."}, << >>)

\* TypeMapper._relative_symbol_path, package being self._package
relative_symbol_path(full_name, package) ==
    LET remainder ==
            IF Truthy(package) /\ StartsWith(full_name, package \o << "." >>)
            THEN DropFirst(full_name, Len(package) + 1)
            ELSE full_name
    IN  IF full_name = << >> THEN << >>
        ELSE SplitNonEmpty(remainder, {"."}, << >>)

\* _is_name_available as it would be if it looked at the reserved identifiers
\* only and not at the identifiers already assigned
is_name_available_reserved_only(name, symbol_table, reserved_identifiers) ==
    name \notin reserved_identifiers

\* TypeMapper._is_name_available
is_name_available(name, symbol_table, reserved_identifiers) ==
    IF name \in reserved_identifiers THEN FALSE
    ELSE \A n \in DOMAIN symbol_table : symbol_table[n].ue_name # name

\* the candidate of the retry loop as it would be if the number appended were
\* the attempt itself: Proto, Proto2, Proto3, ...
collision_candidate_numbered_by_attempt(prefix, suffix, attempt) ==
    LET base_suffix == IF suffix # << >> THEN COLLISION_INSERT \o suffix ELSE COLLISION_INSERT
        adjusted_suffix == IF attempt = 1 THEN base_suffix
                           ELSE base_suffix \o Decimal(attempt)
    IN  prefix \o adjusted_suffix

\* the candidate of the retry loop as it would be if no number were appended
collision_candidate_without_number(prefix, suffix, attempt) ==
    prefix \o (IF suffix # << >> THEN COLLISION_INSERT \o suffix ELSE COLLISION_INSERT)

\* the candidate tried at the given attempt of the retry loop of
\* TypeMapper._make_unique_type_name
collision_candidate(prefix, suffix, attempt) ==
    LET base_suffix == IF suffix # << >> THEN COLLISION_INSERT \o suffix ELSE COLLISION_INSERT
        adjusted_suffix == IF attempt = 1 THEN base_suffix
                           ELSE base_suffix \o Decimal(attempt - 1)
    IN  prefix \o adjusted_suffix

\* the while-loop of TypeMapper._make_unique_type_name, from the given attempt
RECURSIVE make_unique_retry(_, _, _, _, _)
make_unique_retry(prefix, suffix, attempt, symbol_table, reserved_identifiers) ==
    LET candidate == collision_candidate(prefix, suffix, attempt)
    IN  IF is_name_available(candidate, symbol_table, reserved_identifiers)
        THEN candidate
        ELSE make_unique_retry(prefix, suffix, attempt + 1, symbol_table, reserved_identifiers)

\* _make_unique_type_name as it would be if it told names apart by a running
\* count of the registered names instead of testing the candidate
make_unique_type_name_by_count(prefix, suffix, symbol_table, reserved_identifiers) ==
    IF DOMAIN symbol_table = {} THEN prefix \o suffix
    ELSE prefix \o suffix \o Decimal(Cardinality(DOMAIN symbol_table))

\* TypeMapper._make_unique_type_name
make_unique_type_name(prefix, suffix, symbol_table, reserved_identifiers) ==
    IF is_name_available(prefix \o suffix, symbol_table, reserved_identifiers)
    THEN prefix \o suffix
    ELSE make_unique_retry(prefix, suffix, 1, symbol_table, reserved_identifiers)

\* _compose_type_name as it would be without its lookup of the existing entry
compose_type_name_without_lookup(prefix, full_name, package, symbol_table, reserved_identifiers) ==
    LET relative_path == relative_symbol_path(full_name, package)
        pascal_segments == [ i \in DOMAIN relative_path |-> to_pascal_case(relative_path[i]) ]
    IN  make_unique_type_name(prefix, Join(pascal_segments), symbol_table, reserved_identifiers)

\* TypeMapper._compose_type_name
compose_type_name(prefix, full_name, package, symbol_table, reserved_identifiers) ==
    IF full_name \in DOMAIN symbol_table
    THEN symbol_table[full_name].ue_name
    ELSE LET relative_path == relative_symbol_path(full_name, package)
             pascal_segments == [ i \in DOMAIN relative_path |-> to_pascal_case(relative_path[i]) ]
         IN  make_unique_type_name(prefix, Join(pascal_segments), symbol_table, reserved_identifiers)

\* the result of a call that may raise: err is "none" or the class of the
\* exception raised, val the value returned when nothing was raised
Ok(v) == [ err |-> "none", val |-> v ]

Raise(e) == [ err |-> e, val |-> None ]

\* _resolve_type_name as it would be if an override that is taken by another
\* name were dropped in favour of the composed name
resolve_type_name_override_as_preference(full_name, prefix, package, symbol_table, reserved_identifiers, rename_overrides) ==
    IF full_name \in DOMAIN rename_overrides
    THEN LET ue_name == Strip(rename_overrides[full_name])
         IN  IF ue_name = << >> THEN Raise("ValueError")
             ELSE IF ue_name \in reserved_identifiers THEN Raise("ValueError")
             ELSE IF ~ is_name_available(ue_name, symbol_table, reserved_identifiers)
                  THEN Ok(compose_type_name(prefix, full_name, package, symbol_table,
                                            reserved_identifiers))
             ELSE Ok(ue_name)
    ELSE Ok(compose_type_name(prefix, full_name, package, symbol_table, reserved_identifiers))

\* _resolve_type_name as it would be if an override were tested against the
\* identifiers already assigned only, and not against the reserved ones
resolve_type_name_without_reserved_test(full_name, prefix, package, symbol_table, reserved_identifiers, rename_overrides) ==
    IF full_name \in DOMAIN rename_overrides
    THEN LET ue_name == Strip(rename_overrides[full_name])
         IN  IF ue_name = << >> THEN Raise("ValueError")
             ELSE IF \E n \in DOMAIN symbol_table : symbol_table[n].ue_name = ue_name
                  THEN IF full_name \in DOMAIN symbol_table
                          /\ symbol_table[full_name].ue_name = ue_name
                       THEN Ok(ue_name)
                       ELSE Raise("ValueError")
             ELSE Ok(ue_name)
    ELSE Ok(compose_type_name(prefix, full_name, package, symbol_table, reserved_identifiers))

\* TypeMapper._resolve_type_name
resolve_type_name(full_name, prefix, package, symbol_table, reserved_identifiers, rename_overrides) ==
    IF full_name \in DOMAIN rename_overrides
    THEN LET ue_name == Strip(rename_overrides[full_name])
         IN  IF ue_name = << >> THEN Raise("ValueError")
             ELSE IF ue_name \in reserved_identifiers THEN Raise("ValueError")
             ELSE IF ~ is_name_available(ue_name, symbol_table, reserved_identifiers)
                  THEN IF full_name \in DOMAIN symbol_table
                          /\ symbol_table[full_name].ue_name = ue_name
                       THEN Ok(ue_name)
                       ELSE Raise("ValueError")
             ELSE Ok(ue_name)
    ELSE Ok(compose_type_name(prefix, full_name, package, symbol_table, reserved_identifiers))

----------------------------------------------------------------------------
(* The schema graph handed to the mapper (proto2ue.model)                     *)
(*                                                                            *)
(* id models Python's id() of a model.Enum or model.Message; a reference to   *)
(* a type (Field.resolved_type) carries the id, the full_name and the         *)
(* blueprint_type option of the object it points to; id 0 is None.            *)
(* blueprint_type is options["unreal"]["blueprint_type"], True when absent.   *)

NoType == [ id |-> 0, full_name |-> None, blueprint_type |-> TRUE ]

TypeRef(t) == [ id |-> t.id, full_name |-> t.full_name, blueprint_type |-> t.blueprint_type ]

\* model.MapEntry; present is FALSE for Field.map_entry = None
NoMapEntry ==
    [ present |-> FALSE,
      key_kind |-> "scalar", key_scalar |-> None, key_type_name |-> None, key_resolved_type |-> NoType,
      value_kind |-> "scalar", value_scalar |-> None, value_type_name |-> None,
      value_resolved_type |-> NoType ]

ScalarMapEntry(key_scalar, value_scalar) ==
    [ NoMapEntry EXCEPT !.present = TRUE, !.key_scalar = key_scalar, !.value_scalar = value_scalar ]

EnumKeyMapEntry(e, t) ==
    [ NoMapEntry EXCEPT !.present = TRUE,
                        !.key_kind = "enum", !.key_type_name = e.full_name,
                        !.key_resolved_type = TypeRef(e),
                        !.value_kind = "message", !.value_type_name = t.full_name,
                        !.value_resolved_type = TypeRef(t) ]

MessageValueMapEntry(key_scalar, t) ==
    [ NoMapEntry EXCEPT !.present = TRUE, !.key_scalar = key_scalar, !.value_kind = "message",
                        !.value_type_name = t.full_name, !.value_resolved_type = TypeRef(t) ]

\* model.Field
ScalarField(name, cardinality, scalar, oneof) ==
    [ name |-> name, cardinality |-> cardinality, kind |-> "scalar", scalar |-> scalar,
      type_name |-> None, resolved_type |-> NoType, map_entry |-> NoMapEntry, oneof |-> oneof ]

TypeField(name, cardinality, kind, t, oneof) ==
    [ name |-> name, cardinality |-> cardinality, kind |-> kind, scalar |-> None,
      type_name |-> t.full_name, resolved_type |-> TypeRef(t), map_entry |-> NoMapEntry,
      oneof |-> oneof ]

MapField(name, map_entry) ==
    [ name |-> name, cardinality |-> "repeated", kind |-> "map", scalar |-> None,
      type_name |-> None, resolved_type |-> NoType, map_entry |-> map_entry, oneof |-> None ]

\* model.Enum
EnumType(id, name, full_name, blueprint_type) ==
    [ id |-> id, kind |-> "enum", name |-> name, full_name |-> full_name,
      blueprint_type |-> blueprint_type ]

\* model.Message; a oneof lists its member fields by their position in fields
MessageType(id, name, full_name, fields, nested_messages, nested_enums, oneofs, blueprint_type) ==
    [ id |-> id, kind |-> "message", name |-> name, full_name |-> full_name, fields |-> fields,
      nested_messages |-> nested_messages, nested_enums |-> nested_enums, oneofs |-> oneofs,
      blueprint_type |-> blueprint_type ]

\* model.ProtoFile
ProtoFile(name, package, messages, enums) ==
    [ name |-> name, package |-> package, messages |-> messages, enums |-> enums ]

\* foo/common.proto, package foo: an enum and a message with every kind of field
FooColor == EnumType(1, <<"C","o","l","o","r">>, <<"f","o","o",".","C","o","l","o","r">>, FALSE)

FooThingStub == [ id |-> 2, full_name |-> <<"f","o","o",".","T","h","i","n","g">>, blueprint_type |-> TRUE ]

FooInner ==
    MessageType(3, <<"I","n","n","e","r">>, <<"f","o","o",".","T","h","i","n","g",".","I","n","n","e","r">>,
        << TypeField(<<"p","a","r","e","n","t">>, "optional", "message", FooThingStub, None),
           ScalarField(<<"n","o","t","e">>, "required", <<"s","t","r","i","n","g">>, None) >>,
        << >>, << >>, << >>, TRUE)

FooThing ==
    MessageType(2, <<"T","h","i","n","g">>, <<"f","o","o",".","T","h","i","n","g">>,
        << ScalarField(<<"n","a","m","e">>, "optional", <<"s","t","r","i","n","g">>, None),
           ScalarField(<<"c","o","u","n","t">>, "optional", <<"u","i","n","t","3","2">>, None),
           ScalarField(<<"v","a","l","u","e","s">>, "repeated", <<"u","i","n","t","6","4">>, None),
           MapField(<<"l","o","o","k","u","p">>, ScalarMapEntry(<<"s","t","r","i","n","g">>, <<"u","i","n","t","3","2">>)),
           ScalarField(<<"a","l","t">>, "optional", <<"s","t","r","i","n","g">>, <<"c","h","o","i","c","e">>),
           TypeField(<<"s","h","a","d","e">>, "optional", "enum", FooColor, <<"c","h","o","i","c","e">>),
           ScalarField(<<"k","e","y">>, "required", <<"f","i","x","e","d","6","4">>, None),
           TypeField(<<"i","n","n","e","r">>, "optional", "message", FooInner, None) >>,
        << FooInner >>, << >>,
        << [ name |-> <<"c","h","o","i","c","e">>, full_name |-> <<"f","o","o",".","T","h","i","n","g",".","c","h","o","i","c","e">>, fields |-> << 5, 6 >> ] >>,
        TRUE)

FooFile == ProtoFile(<<"f","o","o","/","c","o","m","m","o","n",".","p","r","o","t","o">>, <<"f","o","o">>, << FooThing >>, << FooColor >>)

\* the message Widget of foo_common.proto
BazWidget == MessageType(7, <<"W","i","d","g","e","t">>, <<"b","a","z",".","W","i","d","g","e","t">>, << >>, << >>, << >>, << >>, TRUE)

\* bar/common.proto, package bar: its Thing refers to the types of foo/common.proto
\* and, in a map from an enum to a message, of foo_common.proto
BarVector == MessageType(5, <<"V","e","c","t","o","r">>, <<"b","a","r",".","V","e","c","t","o","r">>, << >>, << >>, << >>, << >>, TRUE)

BarThing ==
    MessageType(4, <<"T","h","i","n","g">>, <<"b","a","r",".","T","h","i","n","g">>,
        << TypeField(<<"r","e","f">>, "optional", "message", FooThing, None),
           TypeField(<<"s","h","a","d","e","s">>, "repeated", "enum", FooColor, None),
           ScalarField(<<"l","a","b","e","l">>, "optional", <<"s","t","r","i","n","g">>, None),
           MapField(<<"b","y","_","k","e","y">>, MessageValueMapEntry(<<"u","i","n","t","6","4">>, FooThing)),
           MapField(<<"w","i","d","g","e","t","s">>, EnumKeyMapEntry(FooColor, BazWidget)),
           TypeField(<<"v","e","c">>, "optional", "message", BarVector, None) >>,
        << >>, << >>, << >>, TRUE)

BarFile == ProtoFile(<<"b","a","r","/","c","o","m","m","o","n",".","p","r","o","t","o">>, <<"b","a","r">>, << BarThing, BarVector >>, << >>)

\* foo_common.proto, package baz
BazThing ==
    MessageType(6, <<"T","h","i","n","g">>, <<"b","a","z",".","T","h","i","n","g">>,
        << ScalarField(<<"n","a","m","e">>, "optional", <<"s","t","r","i","n","g">>, None),
           TypeField(<<"p","a","r","t","s">>, "repeated", "message", BazWidget, None) >>,
        << >>, << >>, << >>, TRUE)

BazFile == ProtoFile(<<"f","o","o","_","c","o","m","m","o","n",".","p","r","o","t","o">>, <<"b","a","z">>, << BazWidget, BazThing >>, << >>)

\* math.proto, package math; its message unit_vector is also listed by dup.proto
\* and its Holder has a field of a scalar type the mapper does not know
MathUnit == MessageType(12, <<"u","n","i","t","_","v","e","c","t","o","r">>, <<"m","a","t","h",".","u","n","i","t","_","v","e","c","t","o","r">>, << >>, << >>, << >>, << >>, TRUE)

MathThing == MessageType(8, <<"T","h","i","n","g">>, <<"m","a","t","h",".","T","h","i","n","g">>, << >>, << >>, << >>, << >>, TRUE)

MathVector == MessageType(9, <<"V","e","c","t","o","r">>, <<"m","a","t","h",".","V","e","c","t","o","r">>, << >>, << >>, << >>, << >>, TRUE)

MathHolder ==
    MessageType(10, <<"H","o","l","d","e","r">>, <<"m","a","t","h",".","H","o","l","d","e","r">>,
        << TypeField(<<"v","e","c","t","o","r">>, "optional", "message", MathVector, None),
           ScalarField(<<"t","i","n","y">>, "optional", <<"u","i","n","t","8">>, None) >>,
        << >>, << >>, << >>, TRUE)

MathFile == ProtoFile(<<"m","a","t","h",".","p","r","o","t","o">>, <<"m","a","t","h">>, << MathUnit, MathThing, MathVector, MathHolder >>, << >>)

\* dup.proto, package foo: an enum whose full name is that of the message
\* foo.Thing, and the message object unit_vector of math.proto
DupThing == EnumType(11, <<"T","h","i","n","g">>, <<"f","o","o",".","T","h","i","n","g">>, TRUE)

DupFile == ProtoFile(<<"d","u","p",".","p","r","o","t","o">>, <<"f","o","o">>, << MathUnit >>, << DupThing >>)

\* the files a caller may hand to the mapper
Files == << FooFile, BarFile, BazFile, MathFile, DupFile >>

\* the sequences of files handed to register_files
FileBatches == { << 1, 2 >>, << 2, 1, 3 >>, << 4, 3, 5, 1 >> }

\* the configurations a mapper is constructed with (config.GeneratorConfig)
NoOverrides == [ n \in {} |-> << >> ]

SomeOverrides ==
    [ n \in { <<"m","a","t","h",".","V","e","c","t","o","r">>, <<"b","a","z",".","W","i","d","g","e","t">>, <<"b","a","r",".","V","e","c","t","o","r">> } |->
        CASE n = <<"m","a","t","h",".","V","e","c","t","o","r">> -> <<"F","V","e","c","t","o","r">>
          [] n = <<"b","a","z",".","W","i","d","g","e","t">> -> <<"F","T","h","i","n","g">>
          [] n = <<"b","a","r",".","V","e","c","t","o","r">> -> <<" ","F","B","a","r","V","e","c"," ">> ]

Configs ==
    { [ convert_unsigned_to_blueprint |-> FALSE,
        reserved_identifiers |-> DEFAULT_RESERVED_IDENTIFIERS,
        rename_overrides |-> NoOverrides,
        include_package_in_names |-> TRUE ],
      [ convert_unsigned_to_blueprint |-> TRUE,
        reserved_identifiers |-> DEFAULT_RESERVED_IDENTIFIERS \cup { << >> },
        rename_overrides |-> SomeOverrides,
        include_package_in_names |-> FALSE ] }

----------------------------------------------------------------------------
(* TypeMapper: construction and registration                                  *)
(*                                                                            *)
(* A method is an operator from the state it starts in to the state it ends   *)
(* in. That state, st, holds self (the attributes of the TypeMapper), the     *)
(* objects self refers to (dicts: the optional-wrapper dictionaries by id,    *)
(* an association list each; wrappers: the UEOptionalWrapper objects by id),  *)
(* err ("none", or the class of the exception being raised), val (the value   *)
(* returned), log (what _resolve_type_name was called with and what it        *)
(* returned or raised, in call order), and begun and completed (the names of  *)
(* the files whose registration has been entered, and has returned).          *)

\* TypeMapper.__init__
new_TypeMapper(config) ==
    [ config |-> config,
      symbol_table |-> EmptyDict,
      package |-> None,
      current_optional_wrappers |-> 0,
      current_file_suffix |-> None,
      current_proto_file_name |-> None,
      type_file_index |-> EmptyDict,
      reserved_identifiers |-> { identifier \in config.reserved_identifiers : identifier # << >> },
      rename_overrides |-> config.rename_overrides ]

\* the symbol-table write of _register_enum and _register_message
store_symbol(symbol_table, full_name, kind, ue_name) ==
    Put(symbol_table, full_name, [ kind |-> kind, ue_name |-> ue_name ])

\* the first three statements of _register_enum and of _register_message
register_type(st, type, prefix, file_name) ==
    LET self == st.self
        resolved == resolve_type_name(type.full_name, prefix, self.package, self.symbol_table,
                                      self.reserved_identifiers, self.rename_overrides)
        entry == [ full_name |-> type.full_name, prefix |-> prefix, package |-> self.package,
                   err |-> resolved.err, ue_name |-> resolved.val ]
    IN  IF st.err # "none" THEN st
        ELSE IF resolved.err # "none"
        THEN [ st EXCEPT !.err = resolved.err, !.log = Append(@, entry) ]
        ELSE [ st EXCEPT
                 !.self.symbol_table = store_symbol(@, type.full_name, type.kind, resolved.val),
                 !.self.type_file_index = Put(@, type.id, file_name),
                 !.log = Append(@, entry) ]

\* TypeMapper._register_enum
register_enum(st, enum, file_name) == register_type(st, enum, enum_prefix, file_name)

\* for enum in enums: self._register_enum(enum, file_name=file_name)
RECURSIVE register_enums(_, _, _)
register_enums(st, enums, file_name) ==
    IF enums = << >> \/ st.err # "none" THEN st
    ELSE register_enums(register_enum(st, Head(enums), file_name), Tail(enums), file_name)

\* TypeMapper._register_message, and the loop that calls it for each message
RECURSIVE register_message(_, _, _)
RECURSIVE register_messages(_, _, _)
register_message(st, message, file_name) ==
    LET own == register_type(st, message, message_prefix, file_name)
        nested == register_enums(own, message.nested_enums, file_name)
    IN  register_messages(nested, message.nested_messages, file_name)

register_messages(st, messages, file_name) ==
    IF messages = << >> \/ st.err # "none" THEN st
    ELSE register_messages(register_message(st, Head(messages), file_name),
                           Tail(messages), file_name)

\* _package_scope as it would be if its finally clause undid the
\* registrations when an exception passes through it
leave_package_scope_rolling_back(st, previous) ==
    IF st.err # "none"
    THEN [ st EXCEPT !.self.package = previous, !.self.symbol_table = EmptyDict,
                     !.self.type_file_index = EmptyDict ]
    ELSE [ st EXCEPT !.self.package = previous ]

\* TypeMapper._package_scope: the finally clause restores the package
leave_package_scope(st, previous) == [ st EXCEPT !.self.package = previous ]

\* TypeMapper.register_file
register_file(st, proto_file) ==
    LET previous == st.self.package
        entered == [ st EXCEPT !.self.package = proto_file.package,
                               !.begun = @ \cup { proto_file.name } ]
        enums_done == register_enums(entered, proto_file.enums, proto_file.name)
        messages_done == register_messages(enums_done, proto_file.messages, proto_file.name)
        left == leave_package_scope(messages_done, previous)
    IN  IF left.err # "none" THEN left
        ELSE [ left EXCEPT !.completed = @ \cup { proto_file.name } ]

\* TypeMapper.register_files
RECURSIVE register_files(_, _)
register_files(st, proto_files) ==
    IF proto_files = << >> \/ st.err # "none" THEN st
    ELSE register_files(register_file(st, Head(proto_files)), Tail(proto_files))

----------------------------------------------------------------------------
(* TypeMapper: conversion helpers                                             *)

\* the characters of the model in code-point order, for sorted()
CharOrder ==
    << "\t", "\n", " ", ",", ".", "/" >> \o DigitChars \o << "<", ">" >> \o UpperChars
        \o << "\\", "_" >> \o LowerChars

Ord(c) == CHOOSE i \in DOMAIN CharOrder : CharOrder[i] = c

\* a < b for Python strings
RECURSIVE StrLess(_, _)
StrLess(a, b) ==
    IF b = << >> THEN FALSE
    ELSE IF a = << >> THEN TRUE
    ELSE IF a[1] = b[1] THEN StrLess(Tail(a), Tail(b))
    ELSE Ord(a[1]) < Ord(b[1])

\* sorted(s) for a set of strings
RECURSIVE Sorted(_)
Sorted(s) ==
    IF s = {} THEN << >>
    ELSE LET least == CHOOSE x \in s : \A y \in s \ {x} : StrLess(x, y)
         IN  << least >> \o Sorted(s \ {least})

\* _lookup_symbol as it would be if a name without entry fell back to the
\* proto name instead of raising KeyError
lookup_symbol_or_proto_name(symbol_table, proto_type, type_name) ==
    LET full_name == IF proto_type.id # 0 THEN proto_type.full_name
                     ELSE IF type_name # None THEN type_name
                     ELSE None
    IN  IF ~ Truthy(full_name) THEN Raise("ValueError")
        ELSE IF full_name \notin DOMAIN symbol_table THEN Ok(full_name)
        ELSE Ok(symbol_table[full_name].ue_name)

\* _lookup_symbol as it would be if a reference without a full name were
\* treated as the name of a type that was never registered
lookup_symbol_nameless_as_unregistered(symbol_table, proto_type, type_name) ==
    LET full_name == IF proto_type.id # 0 THEN proto_type.full_name
                     ELSE IF type_name # None THEN type_name
                     ELSE None
    IN  IF ~ Truthy(full_name) THEN Raise("KeyError")
        ELSE IF full_name \notin DOMAIN symbol_table THEN Raise("KeyError")
        ELSE Ok(symbol_table[full_name].ue_name)

\* TypeMapper._lookup_symbol
lookup_symbol(symbol_table, proto_type, type_name) ==
    LET full_name == IF proto_type.id # 0 THEN proto_type.full_name
                     ELSE IF type_name # None THEN type_name
                     ELSE None
    IN  IF ~ Truthy(full_name) THEN Raise("ValueError")
        ELSE IF full_name \notin DOMAIN symbol_table THEN Raise("KeyError")
        ELSE Ok(symbol_table[full_name].ue_name)

\* TypeMapper._blueprint_unsigned_override
blueprint_unsigned_override(config, ue_type) ==
    IF ~ config.convert_unsigned_to_blueprint THEN ue_type
    ELSE IF ue_type = <<"u","i","n","t","3","2">> THEN <<"i","n","t","3","2">>
    ELSE IF ue_type = <<"u","i","n","t","6","4">> THEN <<"i","n","t","6","4">>
    ELSE ue_type

\* TypeMapper._scalar_to_ue_type
scalar_to_ue_type(config, scalar) ==
    IF scalar \notin DOMAIN SCALAR_MAPPING THEN Raise("KeyError")
    ELSE Ok(blueprint_unsigned_override(config, SCALAR_MAPPING[scalar]))

\* TypeMapper._base_type_for_field
base_type_for_field(self, field) ==
    IF field.kind = "scalar"
    THEN IF ~ Truthy(field.scalar) THEN Raise("ValueError")
         ELSE scalar_to_ue_type(self.config, field.scalar)
    ELSE IF field.kind \in {"message", "enum"}
    THEN lookup_symbol(self.symbol_table, field.resolved_type, field.type_name)
    ELSE Raise("ValueError")

\* _map_entry_part_type as it would be if it read _SCALAR_MAPPING itself,
\* without the Blueprint override _scalar_to_ue_type applies
map_entry_part_type_from_table(self, kind, scalar, resolved, type_name) ==
    IF kind = "scalar"
    THEN IF scalar = None THEN Raise("ValueError")
         ELSE IF scalar \notin DOMAIN SCALAR_MAPPING THEN Raise("KeyError")
         ELSE Ok(SCALAR_MAPPING[scalar])
    ELSE IF kind \in {"message", "enum"}
    THEN lookup_symbol(self.symbol_table, resolved, type_name)
    ELSE Raise("ValueError")

\* TypeMapper._map_entry_part_type
map_entry_part_type(self, kind, scalar, resolved, type_name) ==
    IF kind = "scalar"
    THEN IF scalar = None THEN Raise("ValueError")
         ELSE scalar_to_ue_type(self.config, scalar)
    ELSE IF kind \in {"message", "enum"}
    THEN lookup_symbol(self.symbol_table, resolved, type_name)
    ELSE Raise("ValueError")

\* f"{wrapper}<{a}>" and f"{wrapper}<{a}, {b}>"
Generic1(wrapper, a) == wrapper \o << "<" >> \o a \o << ">" >>

Generic2(wrapper, a, b) == wrapper \o << "<" >> \o a \o << ",", " " >> \o b \o << ">" >>

\* TypeMapper._map_field_types
map_field_types(self, field) ==
    LET entry == field.map_entry
        key_type == map_entry_part_type(self, entry.key_kind, entry.key_scalar,
                                        entry.key_resolved_type, entry.key_type_name)
        value_type == map_entry_part_type(self, entry.value_kind, entry.value_scalar,
                                          entry.value_resolved_type, entry.value_type_name)
    IN  IF ~ entry.present THEN Raise("ValueError")
        ELSE IF key_type.err # "none" THEN key_type
        ELSE IF value_type.err # "none" THEN value_type
        ELSE Ok([ map_type |-> Generic2(map_wrapper, key_type.val, value_type.val),
                  key_type |-> key_type.val, value_type |-> value_type.val ])

\* _dependency_file_for as it would be without its comparison with the name
\* of the file being mapped
dependency_file_for_any_file(self, proto_type) ==
    IF proto_type.id = 0 THEN {}
    ELSE IF proto_type.id \notin DOMAIN self.type_file_index THEN {}
    ELSE LET dependency == self.type_file_index[proto_type.id]
         IN  IF ~ Truthy(dependency) THEN {} ELSE { dependency }

\* TypeMapper._dependency_file_for: the set holding the dependency, empty for None
dependency_file_for(self, proto_type) ==
    IF proto_type.id = 0 THEN {}
    ELSE IF proto_type.id \notin DOMAIN self.type_file_index THEN {}
    ELSE LET dependency == self.type_file_index[proto_type.id]
         IN  IF ~ Truthy(dependency) \/ dependency = self.current_proto_file_name THEN {}
             ELSE { dependency }

\* TypeMapper._collect_field_dependencies
collect_field_dependencies(self, field) ==
    IF field.kind \in {"message", "enum"} THEN dependency_file_for(self, field.resolved_type)
    ELSE {}

\* TypeMapper._collect_map_dependencies
collect_map_dependencies(self, field) ==
    IF ~ field.map_entry.present THEN {}
    ELSE dependency_file_for(self, field.map_entry.key_resolved_type)
            \cup dependency_file_for(self, field.map_entry.value_resolved_type)

\* TypeMapper._base_type_blueprint_enabled
base_type_blueprint_enabled(field) ==
    IF field.kind \in {"message", "enum"} /\ field.resolved_type.id # 0
    THEN field.resolved_type.blueprint_type
    ELSE TRUE

\* re.sub(r"_+", "_", re.sub(r"[^0-9A-Za-z_]", "_", s)).strip("_")
sanitize_identifier(s) == StripUnderscores(CollapseUnderscores(ReplaceNonWord(s)))

\* the PascalCase form of a sanitised string, a fallback standing in for an
\* empty one and an underscore put before a leading digit
pascal_identifier(sanitized, fallback) ==
    LET nonempty == IF sanitized = << >> THEN fallback ELSE sanitized
        converted == to_pascal_case(nonempty)
        pascal == IF converted = << >> THEN fallback ELSE converted
    IN  IF IsDigit(pascal[1]) THEN << "_" >> \o pascal ELSE pascal

\* TypeMapper._compose_optional_wrapper_name
compose_optional_wrapper_name(self, base_type) ==
    LET pascal == pascal_identifier(sanitize_identifier(base_type), <<"V","a","l","u","e">>)
    IN  IF Truthy(self.current_file_suffix)
        THEN optional_wrapper_prefix \o self.current_file_suffix \o pascal
        ELSE optional_wrapper_prefix \o pascal

\* TypeMapper._sanitize_file_identifier
sanitize_file_identifier(proto_name) ==
    IF ~ Truthy(proto_name) THEN None
    ELSE pascal_identifier(
             sanitize_identifier(ReplacePathSeparators(SplitExtRoot(proto_name))), <<"F","i","l","e">>)

----------------------------------------------------------------------------
(* TypeMapper: map_file                                                       *)

\* the position of key in an association list, 0 when it is absent
IndexOfKey(items, key) ==
    IF \E i \in DOMAIN items : items[i].key = key
    THEN CHOOSE i \in DOMAIN items : items[i].key = key
    ELSE 0

\* the identity of a newly created object: one no live object has
NewId(live) == CHOOSE i \in 1 .. (Cardinality(live) + 1) : i \notin live

\* _ensure_optional_wrapper as it would be if it never looked for the wrapper
\* of the base type and built one at every call
ensure_optional_wrapper_always_new(st, base_type, value_blueprint_type) ==
    LET dict == st.self.current_optional_wrappers
        new == NewId(DOMAIN st.wrappers)
        ue_name == compose_optional_wrapper_name(st.self, base_type)
    IN  [ st EXCEPT
            !.wrappers = Put(@, new, [ base_type |-> base_type, ue_name |-> ue_name,
                                       blueprint_type |-> value_blueprint_type,
                                       value_blueprint_exposed |-> value_blueprint_type,
                                       created |-> TRUE ]),
            !.dicts[dict] = Append(@, [ key |-> base_type, value |-> new ]),
            !.val = new ]

\* _ensure_optional_wrapper as it would be if a wrapper found in the cache
\* took the exposure of the latest request, whichever way
ensure_optional_wrapper_following_request(st, base_type, value_blueprint_type) ==
    LET dict == st.self.current_optional_wrappers
        items == st.dicts[dict]
        at == IndexOfKey(items, base_type)
        wrapper == items[at].value
        new == NewId(DOMAIN st.wrappers)
        ue_name == compose_optional_wrapper_name(st.self, base_type)
    IN  IF at # 0
        THEN [ st EXCEPT !.wrappers[wrapper].blueprint_type = value_blueprint_type,
                         !.wrappers[wrapper].value_blueprint_exposed = value_blueprint_type,
                         !.val = wrapper ]
        ELSE [ st EXCEPT
                 !.wrappers = Put(@, new, [ base_type |-> base_type, ue_name |-> ue_name,
                                            blueprint_type |-> value_blueprint_type,
                                            value_blueprint_exposed |-> value_blueprint_type,
                                            created |-> TRUE ]),
                 !.dicts[dict] = Append(@, [ key |-> base_type, value |-> new ]),
                 !.val = new ]

\* TypeMapper._ensure_optional_wrapper; val is the wrapper returned (its id).
\* created marks the wrappers constructed since the current map_file call began.
ensure_optional_wrapper(st, base_type, value_blueprint_type) ==
    LET dict == st.self.current_optional_wrappers
        items == st.dicts[dict]
        at == IndexOfKey(items, base_type)
        wrapper == items[at].value
        new == NewId(DOMAIN st.wrappers)
        ue_name == compose_optional_wrapper_name(st.self, base_type)
    IN  IF at # 0
        THEN IF ~ value_blueprint_type
             THEN [ st EXCEPT !.wrappers[wrapper].blueprint_type = FALSE,
                              !.wrappers[wrapper].value_blueprint_exposed = FALSE,
                              !.val = wrapper ]
             ELSE [ st EXCEPT !.val = wrapper ]
        ELSE [ st EXCEPT
                 !.wrappers = Put(@, new, [ base_type |-> base_type, ue_name |-> ue_name,
                                            blueprint_type |-> value_blueprint_type,
                                            value_blueprint_exposed |-> value_blueprint_type,
                                            created |-> TRUE ]),
                 !.dicts[dict] = Append(@, [ key |-> base_type, value |-> new ]),
                 !.val = new ]

\* the UEField built at the end of _convert_field
UEField(field, base_type, ue_type, is_optional, is_repeated, is_map, container, key_type, value_type, optional_wrapper, dependent_files) ==
    [ name |-> field.name, base_type |-> base_type, ue_type |-> ue_type, kind |-> field.kind,
      cardinality |-> field.cardinality, is_optional |-> is_optional,
      is_repeated |-> is_repeated, is_map |-> is_map, container |-> container,
      map_key_type |-> key_type, map_value_type |-> value_type, oneof_group |-> field.oneof,
      optional_wrapper |-> IF is_optional THEN optional_wrapper ELSE 0,
      dependent_files |-> Sorted(dependent_files) ]

\* the map branch of _convert_field as it would be if it took is_repeated
\* from the cardinality of the field, as the other branch does
convert_map_field_by_cardinality(st, field) ==
    LET types == map_field_types(st.self, field)
    IN  IF types.err # "none" THEN [ st EXCEPT !.err = types.err ]
        ELSE [ st EXCEPT !.val =
                 UEField(field, types.val.map_type, types.val.map_type, FALSE,
                         field.cardinality = "repeated", TRUE,
                         map_wrapper, types.val.key_type, types.val.value_type, 0,
                         collect_map_dependencies(st.self, field)) ]

\* TypeMapper._convert_field, the branch of a map field
convert_map_field(st, field) ==
    LET types == map_field_types(st.self, field)
    IN  IF types.err # "none" THEN [ st EXCEPT !.err = types.err ]
        ELSE [ st EXCEPT !.val =
                 UEField(field, types.val.map_type, types.val.map_type, FALSE, FALSE, TRUE,
                         map_wrapper, types.val.key_type, types.val.value_type, 0,
                         collect_map_dependencies(st.self, field)) ]

\* the other branch of _convert_field as it would be if only the cardinality
\* of a field, and not its membership of a oneof, had it wrapped
convert_plain_field_by_cardinality(st, field) ==
    LET is_oneof_member == field.oneof # None
        is_repeated == field.cardinality = "repeated"
        is_proto_optional == field.cardinality = "optional" /\ ~ is_oneof_member
        wrap_with_optional == is_proto_optional
        dependent_files == collect_field_dependencies(st.self, field)
        wrapped_field(base_type, wrapped) ==
            LET wrapper_name == wrapped.wrappers[wrapped.val].ue_name
            IN  [ wrapped EXCEPT !.val =
                    UEField(field, base_type, wrapper_name, TRUE, is_repeated, FALSE,
                            wrapper_name, None, None, wrapped.val, dependent_files) ]
        converted(base_type) ==
            IF base_type.err # "none" THEN [ st EXCEPT !.err = base_type.err ]
            ELSE IF is_repeated
            THEN [ st EXCEPT !.val =
                     UEField(field, base_type.val, Generic1(array_wrapper, base_type.val), FALSE,
                             is_repeated, FALSE, array_wrapper, None, None, 0, dependent_files) ]
            ELSE IF wrap_with_optional
            THEN wrapped_field(base_type.val,
                               ensure_optional_wrapper(st, base_type.val,
                                                       base_type_blueprint_enabled(field)))
            ELSE [ st EXCEPT !.val =
                     UEField(field, base_type.val, base_type.val, FALSE, is_repeated, FALSE, None,
                             None, None, 0, dependent_files) ]
    IN  converted(base_type_for_field(st.self, field))

\* TypeMapper._convert_field, the branch of every other field
convert_plain_field(st, field) ==
    LET is_oneof_member == field.oneof # None
        is_repeated == field.cardinality = "repeated"
        is_proto_optional == field.cardinality = "optional" /\ ~ is_oneof_member
        wrap_with_optional == is_proto_optional \/ is_oneof_member
        dependent_files == collect_field_dependencies(st.self, field)
        wrapped_field(base_type, wrapped) ==
            LET wrapper_name == wrapped.wrappers[wrapped.val].ue_name
            IN  [ wrapped EXCEPT !.val =
                    UEField(field, base_type, wrapper_name, TRUE, is_repeated, FALSE,
                            wrapper_name, None, None, wrapped.val, dependent_files) ]
        converted(base_type) ==
            IF base_type.err # "none" THEN [ st EXCEPT !.err = base_type.err ]
            ELSE IF is_repeated
            THEN [ st EXCEPT !.val =
                     UEField(field, base_type.val, Generic1(array_wrapper, base_type.val), FALSE,
                             is_repeated, FALSE, array_wrapper, None, None, 0, dependent_files) ]
            ELSE IF wrap_with_optional
            THEN wrapped_field(base_type.val,
                               ensure_optional_wrapper(st, base_type.val,
                                                       base_type_blueprint_enabled(field)))
            ELSE [ st EXCEPT !.val =
                     UEField(field, base_type.val, base_type.val, FALSE, is_repeated, FALSE, None,
                             None, None, 0, dependent_files) ]
    IN  converted(base_type_for_field(st.self, field))

\* TypeMapper._convert_field
convert_field(st, field) ==
    IF field.kind = "map" THEN convert_map_field(st, field) ELSE convert_plain_field(st, field)

\* list.append(converted) on the list built so far, in the state the
\* conversion ended in; nothing is appended when the conversion raised
append_converted(done, next) ==
    IF next.err # "none" THEN next ELSE [ next EXCEPT !.val = Append(done, next.val) ]

\* for field in message.fields: fields.append(self._convert_field(field));
\* val is the list built so far
RECURSIVE convert_fields(_, _)
convert_fields(st, fields) ==
    IF fields = << >> \/ st.err # "none" THEN st
    ELSE convert_fields(append_converted(st.val, convert_field(st, Head(fields))), Tail(fields))

\* TypeMapper._convert_oneof; a case names its field by position
convert_oneof(oneof, message_ue_name, message) ==
    LET ue_name == message_ue_name \o to_pascal_case(oneof.name) \o <<"O","n","e","o","f">>
    IN  [ name |-> oneof.name, full_name |-> oneof.full_name, ue_name |-> ue_name,
          cases |-> [ i \in DOMAIN oneof.fields |->
                        LET field == message.fields[oneof.fields[i]]
                        IN  [ name |-> field.name,
                              ue_case_name |-> ue_name \o to_pascal_case(field.name) \o <<"C","a","s","e">>,
                              field |-> oneof.fields[i] ] ] ]

\* TypeMapper._convert_enum
convert_enum(st, enum) ==
    LET ue_name == lookup_symbol(st.self.symbol_table, TypeRef(enum), enum.full_name)
    IN  IF ue_name.err # "none" THEN [ st EXCEPT !.err = ue_name.err ]
        ELSE [ st EXCEPT !.val = [ name |-> enum.name, full_name |-> enum.full_name,
                                   ue_name |-> ue_name.val,
                                   blueprint_type |-> enum.blueprint_type ] ]

\* [self._convert_enum(enum) for enum in enums]; val is the list built so far
RECURSIVE convert_enums(_, _)
convert_enums(st, enums) ==
    IF enums = << >> \/ st.err # "none" THEN st
    ELSE convert_enums(append_converted(st.val, convert_enum(st, Head(enums))), Tail(enums))

\* TypeMapper._convert_message, and the list comprehension that calls it
RECURSIVE convert_message(_, _)
RECURSIVE convert_messages(_, _)
convert_message(st, message) ==
    LET ue_name == lookup_symbol(st.self.symbol_table, TypeRef(message), message.full_name)
        built(fields, nested_messages, nested_enums) ==
            IF nested_enums.err # "none" THEN nested_enums
            ELSE [ nested_enums EXCEPT !.val =
                     [ name |-> message.name, full_name |-> message.full_name,
                       ue_name |-> ue_name.val, fields |-> fields.val,
                       nested_messages |-> nested_messages.val,
                       nested_enums |-> nested_enums.val,
                       oneofs |-> [ i \in DOMAIN message.oneofs |->
                                      convert_oneof(message.oneofs[i], ue_name.val, message) ],
                       blueprint_type |-> message.blueprint_type ] ]
        with_nested_messages(fields, nested_messages) ==
            built(fields, nested_messages,
                  convert_enums([ nested_messages EXCEPT !.val = << >> ], message.nested_enums))
        with_fields(fields) ==
            with_nested_messages(fields,
                convert_messages([ fields EXCEPT !.val = << >> ], message.nested_messages))
    IN  IF ue_name.err # "none" THEN [ st EXCEPT !.err = ue_name.err ]
        ELSE with_fields(convert_fields([ st EXCEPT !.val = << >> ], message.fields))

convert_messages(st, messages) ==
    IF messages = << >> \/ st.err # "none" THEN st
    ELSE convert_messages(append_converted(st.val, convert_message(st, Head(messages))),
                          Tail(messages))

\* map_file as it would be if it kept filling the dictionary it found instead
\* of starting a new one
enter_wrapper_scope_reusing(st) == st

\* map_file: self._current_optional_wrappers = {}
enter_wrapper_scope(st) ==
    LET new == NewId(DOMAIN st.dicts)
    IN  [ st EXCEPT !.self.current_optional_wrappers = new, !.dicts = Put(@, new, << >>) ]

\* map_file: list(self._current_optional_wrappers.values())
current_wrapper_list(st) ==
    LET items == st.dicts[st.self.current_optional_wrappers]
    IN  [ i \in DOMAIN items |-> items[i].value ]

\* the finally clause of map_file as it would be if it put back the wrapper
\* dictionary only
leave_file_scope_wrappers_only(st, previous) ==
    [ st EXCEPT !.self.current_optional_wrappers = previous.current_optional_wrappers ]

\* map_file: the finally clause
leave_file_scope(st, previous) ==
    [ st EXCEPT !.self.current_optional_wrappers = previous.current_optional_wrappers,
                !.self.current_file_suffix = previous.current_file_suffix,
                !.self.current_proto_file_name = previous.current_proto_file_name ]

\* map_file after its call of register_file: the with block and the return
convert_file(st, proto_file) ==
    LET returned(previous, messages, enums) ==
            LET left == leave_package_scope(leave_file_scope(enums, previous), previous.package)
            IN  IF left.err # "none" THEN [ left EXCEPT !.val = None ]
                ELSE [ left EXCEPT !.val =
                         [ name |-> proto_file.name, package |-> proto_file.package,
                           messages |-> messages.val, enums |-> enums.val,
                           optional_wrappers |-> current_wrapper_list(enums) ] ]
        with_messages(previous, messages) ==
            returned(previous, messages,
                     convert_enums([ messages EXCEPT !.val = << >> ], proto_file.enums))
        in_scope(registered) ==
            [ enter_wrapper_scope([ registered EXCEPT !.self.package = proto_file.package ]) EXCEPT
                !.self.current_file_suffix = sanitize_file_identifier(proto_file.name),
                !.self.current_proto_file_name = proto_file.name,
                !.val = << >> ]
        mapped(registered) ==
            IF registered.err # "none" THEN registered
            ELSE with_messages(registered.self,
                               convert_messages(in_scope(registered), proto_file.messages))
    IN  mapped(st)

\* map_file as it would be without its call of register_file
map_file_without_registration(st, proto_file) ==
    convert_file(st, proto_file)

\* TypeMapper.map_file
map_file(st, proto_file) ==
    convert_file(register_file(st, proto_file), proto_file)

----------------------------------------------------------------------------
(* NameResolver (naming.py)                                                   *)

\* NameResolver.__init__; the entries of additional_reserved are strings
new_NameResolver(rules, additional_reserved) ==
    [ rules |-> rules,
      symbols |-> EmptyDict,
      reserved |-> rules.reserved_symbols
                     \cup { Strip(entry) : entry \in { e \in additional_reserved : Strip(e) # << >> } } ]

\* NameResolver._is_available
is_available(self, name) == name \notin self.reserved

\* the candidate tried at the given attempt of the retry loop of NameResolver._make_unique
unique_candidate(self, prefix, suffix, attempt) ==
    LET base_suffix == IF suffix # << >> THEN self.rules.collision_suffix \o suffix
                       ELSE self.rules.collision_suffix
    IN  prefix \o (IF attempt = 1 THEN base_suffix ELSE base_suffix \o Decimal(attempt - 1))

\* the while-loop of NameResolver._make_unique, from the given attempt
RECURSIVE make_unique_loop(_, _, _, _)
make_unique_loop(self, prefix, suffix, attempt) ==
    LET candidate == unique_candidate(self, prefix, suffix, attempt)
    IN  IF is_available(self, candidate) THEN candidate
        ELSE make_unique_loop(self, prefix, suffix, attempt + 1)

\* NameResolver._make_unique: the name returned, which it adds to self._reserved
make_unique(self, prefix, suffix) ==
    IF is_available(self, prefix \o suffix) THEN prefix \o suffix
    ELSE make_unique_loop(self, prefix, suffix, 1)

\* NameResolver.register, on a state st whose self is the resolver
register(st, full_name, prefix, suffix) ==
    LET self == st.self
        has_override == full_name \in DOMAIN self.rules.overrides
                          /\ self.rules.overrides[full_name] # << >>
        override == self.rules.overrides[full_name]
        candidate == make_unique(self, prefix, suffix)
        taken(name) == [ st EXCEPT !.self.reserved = @ \cup { name },
                                   !.self.symbols = Put(@, full_name, name),
                                   !.val = name ]
    IN  IF full_name \in DOMAIN self.symbols THEN [ st EXCEPT !.val = self.symbols[full_name] ]
        ELSE IF has_override
        THEN IF override \in self.reserved THEN [ st EXCEPT !.err = "ValueError" ]
             ELSE taken(override)
        ELSE taken(candidate)

\* the rules and the calls a NameResolver is exercised with
ResolverRules ==
    { [ reserved_symbols |-> { <<"F","V","e","c","t","o","r">> }, overrides |-> NoOverrides,
        collision_suffix |-> <<"P","r","o","t","o">> ],
      [ reserved_symbols |-> { <<"F","D","e","m","o","T","y","p","e">> },
        overrides |-> [ n \in { <<"d","e","m","o",".","T","y","p","e">>, <<"d","e","m","o",".","K","i","n","d">> } |->
                          IF n = <<"d","e","m","o",".","T","y","p","e">> THEN <<"F","D","e","m","o","T","y","p","e">> ELSE <<"E","K","i","n","d">> ],
        collision_suffix |-> <<"P","r","o","t","o">> ] }

\* the calls made on a resolver: a full name, with either prefix and with the
\* suffix its last segment gives
ResolverCalls ==
    { << <<"m","a","t","h",".","V","e","c","t","o","r">>, <<"V","e","c","t","o","r">> >>,
      << <<"g","e","o",".","V","e","c","t","o","r">>, <<"V","e","c","t","o","r">> >>,
      << <<"s","i","m",".","V","e","c","t","o","r">>, <<"V","e","c","t","o","r">> >>,
      << <<"d","e","m","o",".","T","y","p","e">>, <<"D","e","m","o","T","y","p","e">> >>,
      << <<"d","e","m","o",".","K","i","n","d">>, <<"K","i","n","d">> >> }

ResolverPrefixes == { <<"F">>, <<"E">> }

----------------------------------------------------------------------------
(* GeneratorConfig (config.py)                                                *)

\* str.lower()
LowerOf == [ c \in Range(UpperChars) |-> LowerChars[CHOOSE i \in DOMAIN UpperChars : UpperChars[i] = c] ]

Lower(s) == [ i \in DOMAIN s |-> IF s[i] \in DOMAIN LowerOf THEN LowerOf[s[i]] ELSE s[i] ]

\* s.replace(a, b) for one-character a and b
ReplaceChar(s, a, b) == [ i \in DOMAIN s |-> IF s[i] = a THEN b ELSE s[i] ]

\* s.split(sep) for a one-character sep: all the pieces, empty ones included;
\* the k-th piece lies between the (k-1)-th and the k-th occurrence of sep
SplitAt(s, sep) ==
    LET cuts == { i \in DOMAIN s : s[i] = sep }
        cut(k) == IF k = 0 THEN 0
                  ELSE IF k > Cardinality(cuts) THEN Len(s) + 1
                  ELSE CHOOSE i \in cuts : Cardinality({ j \in cuts : j < i }) = k - 1
    IN  [ k \in 1 .. (Cardinality(cuts) + 1) |-> SubSeq(s, cut(k - 1) + 1, cut(k) - 1) ]

\* the smallest index of character c in s, 0 when absent (str.find, 1-based)
FirstIndexOf(s, c) ==
    IF \E i \in DOMAIN s : s[i] = c
    THEN CHOOSE i \in DOMAIN s : s[i] = c /\ \A j \in DOMAIN s : s[j] = c => i <= j
    ELSE 0

\* str.splitlines() of a text whose only line terminator is "\n"
SplitLines(content) ==
    LET pieces == SplitAt(content, "\n")
    IN  IF pieces[Len(pieces)] = << >> THEN SubSeq(pieces, 1, Len(pieces) - 1) ELSE pieces

\* d.get(k)
Get(d, k) == IF k \in DOMAIN d THEN d[k] ELSE None

\* [strip(e) for e in entries if strip(e)]
RECURSIVE StrippedNonEmpty(_)
StrippedNonEmpty(entries) ==
    IF entries = << >> THEN << >>
    ELSE (IF Strip(Head(entries)) = << >> THEN << >> ELSE << Strip(Head(entries)) >>)
            \o StrippedNonEmpty(Tail(entries))

\* tuple(dict.fromkeys(entry for entry in entries if entry)): the non-empty
\* entries in order, each kept where it first occurs (seen: those kept so far)
RECURSIVE UniqueNonEmpty(_, _)
UniqueNonEmpty(entries, seen) ==
    IF entries = << >> THEN << >>
    ELSE IF Head(entries) = << >> \/ Head(entries) \in seen
         THEN UniqueNonEmpty(Tail(entries), seen)
         ELSE << Head(entries) >> \o UniqueNonEmpty(Tail(entries), seen \cup { Head(entries) })

TRUE_VALUES == { <<"t","r","u","e">>, <<"1">>, <<"y","e","s">>, <<"o","n">> }

FALSE_VALUES == { <<"f","a","l","s","e">>, <<"0">>, <<"n","o">>, <<"o","f","f">> }

\* config.DEFAULT_RESERVED_IDENTIFIERS as the tuple it is
DEFAULT_RESERVED_IDENTIFIERS_TUPLE ==
    << <<"F","V","e","c","t","o","r">>, <<"F","V","e","c","t","o","r","2","D">>, <<"F","V","e","c","t","o","r","3","d">>, <<"F","V","e","c","t","o","r","4">>, <<"F","V","e","c","t","o","r","4","d">>,
       <<"E","V","e","c","t","o","r">>, <<"E","V","e","c","t","o","r","2","D">>, <<"E","V","e","c","t","o","r","3","d">>, <<"E","V","e","c","t","o","r","4">>, <<"E","V","e","c","t","o","r","4","d">>,
       <<"E","V","e","c","t","o","r","S","t","a","t","e">> >>

\* the loop of _parse_parameter_string
RECURSIVE parse_parameter_entries(_, _)
parse_parameter_entries(entries, result) ==
    IF entries = << >> THEN result
    ELSE LET piece == Strip(Head(entries))
             equals == FirstIndexOf(piece, "=")
         IN  IF piece = << >> THEN parse_parameter_entries(Tail(entries), result)
             ELSE IF equals > 0
             THEN parse_parameter_entries(Tail(entries),
                      Put(result, Lower(Strip(SubSeq(piece, 1, equals - 1))),
                          Strip(SubSeq(piece, equals + 1, Len(piece)))))
             ELSE parse_parameter_entries(Tail(entries), Put(result, Lower(piece), <<"t","r","u","e">>))

\* config._parse_parameter_string
parse_parameter_string(parameter) ==
    IF ~ Truthy(parameter) THEN EmptyDict
    ELSE parse_parameter_entries(SplitAt(ReplaceChar(parameter, ";", ","), ","), EmptyDict)

\* config._to_bool of an Optional[str]: "True", "False" or None
to_bool(value) ==
    IF value = None THEN None
    ELSE IF Lower(Strip(value)) \in TRUE_VALUES THEN <<"T","r","u","e">>
    ELSE IF Lower(Strip(value)) \in FALSE_VALUES THEN <<"F","a","l","s","e">>
    ELSE None

\* config._split_config_tokens
split_config_tokens(raw) ==
    IF ~ Truthy(raw) THEN << >>
    ELSE StrippedNonEmpty(SplitAt(ReplaceChar(ReplaceChar(raw, "|", ","), ";", ","), ","))

\* the loop of _load_identifier_file
RECURSIVE identifier_lines(_)
identifier_lines(lines) ==
    IF lines = << >> THEN << >>
    ELSE LET stripped == Strip(Head(lines))
         IN  (IF stripped = << >> \/ stripped[1] = "#" THEN << >> ELSE << stripped >>)
                \o identifier_lines(Tail(lines))

\* _load_identifier_file as it would be if it kept the lines starting with '#'
load_identifier_file_keeping_comments(file_system, path_value) ==
    IF ~ Truthy(path_value) THEN Ok(<< >>)
    ELSE IF path_value \notin DOMAIN file_system THEN Raise("FileNotFoundError")
    ELSE Ok(StrippedNonEmpty(SplitLines(file_system[path_value])))

\* config._load_identifier_file; file_system gives the text of every file
\* that exists, by path
load_identifier_file(file_system, path_value) ==
    IF ~ Truthy(path_value) THEN Ok(<< >>)
    ELSE IF path_value \notin DOMAIN file_system THEN Raise("FileNotFoundError")
    ELSE Ok(identifier_lines(SplitLines(file_system[path_value])))

\* config._parse_rename_entries
RECURSIVE parse_rename_entries(_, _)
parse_rename_entries(entries, mapping) ==
    IF entries = << >> THEN Ok(mapping)
    ELSE LET entry == Head(entries)
             colon == FirstIndexOf(entry, ":")
             proto_key == Strip(SubSeq(entry, 1, colon - 1))
             ue_value == Strip(SubSeq(entry, colon + 1, Len(entry)))
         IN  IF entry = << >> THEN parse_rename_entries(Tail(entries), mapping)
             ELSE IF colon = 0 THEN Raise("ValueError")
             ELSE IF proto_key = << >> \/ ue_value = << >> THEN Raise("ValueError")
             ELSE parse_rename_entries(Tail(entries), Put(mapping, proto_key, ue_value))

\* GeneratorConfig.from_parameter_string
from_parameter_string(parameter, file_system) ==
    LET overrides == parse_parameter_string(parameter)
        convert_flag == IF Get(overrides, <<"c","o","n","v","e","r","t","_","u","n","s","i","g","n","e","d","_","f","o","r","_","b","l","u","e","p","r","i","n","t">>) = None
                        THEN Get(overrides, <<"c","o","n","v","e","r","t","_","u","n","s","i","g","n","e","d","_","t","o","_","b","l","u","e","p","r","i","n","t">>)
                        ELSE Get(overrides, <<"c","o","n","v","e","r","t","_","u","n","s","i","g","n","e","d","_","f","o","r","_","b","l","u","e","p","r","i","n","t">>)
        reserved_override == Get(overrides, <<"r","e","s","e","r","v","e","d","_","i","d","e","n","t","i","f","i","e","r","s">>)
        reserved_file == load_identifier_file(file_system, Get(overrides, <<"r","e","s","e","r","v","e","d","_","i","d","e","n","t","i","f","i","e","r","s","_","f","i","l","e">>))
        rename_file == load_identifier_file(file_system, Get(overrides, <<"r","e","n","a","m","e","_","o","v","e","r","r","i","d","e","s","_","f","i","l","e">>))
        configured(reserved_loaded, rename_loaded) ==
            LET reserved_entries ==
                    (IF Truthy(reserved_override) THEN split_config_tokens(reserved_override)
                     ELSE DEFAULT_RESERVED_IDENTIFIERS_TUPLE)
                       \o split_config_tokens(Get(overrides, <<"e","x","t","r","a","_","r","e","s","e","r","v","e","d","_","i","d","e","n","t","i","f","i","e","r","s">>))
                       \o reserved_loaded
                rename_overrides ==
                    parse_rename_entries(
                        split_config_tokens(Get(overrides, <<"r","e","n","a","m","e","_","o","v","e","r","r","i","d","e","s">>)) \o rename_loaded,
                        EmptyDict)
            IN  IF rename_overrides.err # "none" THEN rename_overrides
                ELSE Ok([ convert_unsigned_to_blueprint |-> to_bool(convert_flag) = <<"T","r","u","e">>,
                          reserved_identifiers |-> UniqueNonEmpty(reserved_entries, {}),
                          rename_overrides |-> rename_overrides.val,
                          include_package_in_names |->
                             to_bool(Get(overrides, <<"i","n","c","l","u","d","e","_","p","a","c","k","a","g","e","_","i","n","_","n","a","m","e","s">>)) # <<"F","a","l","s","e">> ])
    IN  IF reserved_file.err # "none" THEN reserved_file
        ELSE IF rename_file.err # "none" THEN rename_file
        ELSE configured(reserved_file.val, rename_file.val)

----------------------------------------------------------------------------

(* The state machine: one object, a TypeMapper or a NameResolver, and the     *)
(* calls made on it one after another                                         *)

VARIABLES
    subject,    \* the class of the object: "TypeMapper" or "NameResolver"
    object,     \* the attributes of the object
    dicts,      \* the live optional-wrapper dictionaries, by id
    wrappers,   \* the live UEOptionalWrapper objects, by id
    call,       \* the last call made: its name and its arguments
    result,     \* what the last call returned (val) or raised (err)
    log,        \* the _resolve_type_name calls of the last call, in order
    history     \* the names of the files whose registration was begun / completed,
                \* and whether a call before the last one returned optional wrappers

vars == << subject, object, dicts, wrappers, call, result, log, history >>

NoCall == [ op |-> "none", files |-> << >>, full_name |-> None, prefix |-> None, suffix |-> None ]

Init ==
    /\ subject \in { "TypeMapper", "NameResolver" }
    /\ \/ subject = "TypeMapper" /\ \E config \in Configs : object = new_TypeMapper(config)
       \/ subject = "NameResolver" /\ \E rules \in ResolverRules : object = new_NameResolver(rules, {})
    /\ dicts = [ d \in {0} |-> << >> ]
    /\ wrappers = EmptyDict
    /\ call = NoCall
    /\ result = [ err |-> "none", val |-> None ]
    /\ log = << >>
    /\ history = [ begun |-> {}, completed |-> {}, mapped |-> FALSE ]

\* the state a call starts in
Begin ==
    [ self |-> object,
      dicts |-> dicts,
      wrappers |-> [ w \in DOMAIN wrappers |-> [ wrappers[w] EXCEPT !.created = FALSE ] ],
      err |-> "none", val |-> None, log |-> << >>,
      begun |-> history.begun, completed |-> history.completed ]

\* the UEField objects of a list of UEMessage objects, nested messages included
RECURSIVE FieldsOf(_)
FieldsOf(messages) ==
    IF messages = << >> THEN {}
    ELSE Range(Head(messages).fields) \cup FieldsOf(Head(messages).nested_messages)
            \cup FieldsOf(Tail(messages))

\* the wrapper objects a returned UEProtoFile refers to
WrappersOf(ue_file) ==
    Range(ue_file.optional_wrappers)
        \cup { f.optional_wrapper : f \in { g \in FieldsOf(ue_file.messages) : g.optional_wrapper # 0 } }

\* the objects that are still referred to when the call op has ended in state
\* st: the dictionary self holds, the wrappers in it and those of the
\* UEProtoFile returned
LiveDicts(st) == { st.self.current_optional_wrappers }

LiveWrappers(st, op) ==
    (IF op = "map_file" /\ st.err = "none" THEN WrappersOf(st.val) ELSE {})
        \cup UNION { { st.dicts[d][i].value : i \in DOMAIN st.dicts[d] } : d \in LiveDicts(st) }

\* a call on the TypeMapper ends in state st
EndMapperCall(st, op, files) ==
    /\ object' = st.self
    /\ dicts' = [ d \in LiveDicts(st) |-> st.dicts[d] ]
    /\ wrappers' = [ w \in LiveWrappers(st, op) |-> st.wrappers[w] ]
    /\ call' = [ NoCall EXCEPT !.op = op, !.files = files ]
    /\ result' = [ err |-> st.err, val |-> st.val ]
    /\ log' = st.log
    /\ history' = [ begun |-> st.begun, completed |-> st.completed,
                    mapped |-> history.mapped
                                 \/ (call.op = "map_file" /\ result.err = "none"
                                        /\ result.val.optional_wrappers # << >>) ]
    /\ UNCHANGED subject

\* mapper.register_file(Files[f])
RegisterFile(f) ==
    /\ subject = "TypeMapper"
    /\ \E st \in { register_file(Begin, Files[f]) } : EndMapperCall(st, "register_file", << f >>)

\* mapper.register_files(the files of batch)
RegisterFiles(batch) ==
    /\ subject = "TypeMapper"
    /\ \E st \in { register_files(Begin, [ i \in DOMAIN batch |-> Files[batch[i]] ]) } :
          EndMapperCall(st, "register_files", batch)

\* mapper.map_file(Files[f])
MapFile(f) ==
    /\ subject = "TypeMapper"
    /\ \E st \in { map_file(Begin, Files[f]) } : EndMapperCall(st, "map_file", << f >>)

\* resolver.register(full_name, prefix, suffix)
Register(full_name, prefix, suffix) ==
    /\ subject = "NameResolver"
    /\ \E st \in { register(Begin, full_name, prefix, suffix) } :
           /\ object' = st.self
           /\ call' = [ NoCall EXCEPT !.op = "register", !.full_name = full_name,
                                      !.prefix = prefix, !.suffix = suffix ]
           /\ result' = [ err |-> st.err, val |-> st.val ]
    /\ UNCHANGED << subject, dicts, wrappers, log, history >>

Next ==
    \/ \E f \in DOMAIN Files : RegisterFile(f)
    \/ \E batch \in FileBatches : RegisterFiles(batch)
    \/ \E f \in DOMAIN Files : MapFile(f)
    \/ \E c \in ResolverCalls, prefix \in ResolverPrefixes : Register(c[1], prefix, c[2])

Spec == Init /\ [][Next]_vars

----------------------------------------------------------------------------
(* GeneratorConfig.from_parameter_string: the calls a plugin invocation may   *)
(* make, each given by what the caller means to configure, the way the lists  *)
(* are written and the files that exist                                       *)

\* the paths the parameters name
ReservedPath == <<"r","e","s","e","r","v","e","d",".","t","x","t">>

RenamePath == <<"r","e","n","a","m","e","s",".","t","x","t">>

\* what a caller means to configure: the replacement list, the additive list,
\* whether the reserved file is named, the rename entries, whether the rename
\* file is named, the separator of the entries of a list and the separator
\* of the parameters
Intents ==
    [ reserved : { << >>, << <<"F","O","n","e">>, <<"F","T","w","o">> >> },
      extra_reserved : { << >>, << <<"F","T","h","i","r","d">>, <<"F","O","n","e">> >> },
      reserved_file : BOOLEAN,
      renames : { << >>,
                  << <<"a",".","B",":","F","A","b">>, <<"c",".","D",":","F","C","d">> >>,
                  << <<" ","a",".","B"," ",":"," ","F","A","b"," ">> >>,
                  << <<"a",".","B",":","F","A","b">>, <<"i","n","v","a","l","i","d","-","e","n","t","r","y">> >>,
                  << <<":","F","A","b">> >>,
                  << <<"a",".","B",":"," ">> >> },
      rename_file : BOOLEAN,
      list_separator : { "|", ",", ";" },
      parameter_separator : { ",", ";" } ]

\* the texts the two files may hold, line by line
FileTexts ==
    { [ reserved |-> << <<"F","E","x","t","r","a">>, <<"#"," ","c","o","m","m","e","n","t">>, << >>, <<" "," ","F","A","n","o","t","h","e","r"," ">>, <<"F","E","x","t","r","a">> >>,
        renames |-> << <<"p",".","V",":","F","P","v">>, << >>, <<"#"," ","p",".","W",":","F","P","w">>, <<"p",".","C",":","E","P","c">> >> ],
      [ reserved |-> << <<"F","O","n","e">> >>,
        renames |-> << <<"a",".","B",":","F","O","t","h","e","r">> >> ] }

\* sep.join(parts)
RECURSIVE JoinWith(_, _)
JoinWith(parts, sep) ==
    IF parts = << >> THEN << >>
    ELSE IF Len(parts) = 1 THEN Head(parts)
    ELSE Head(parts) \o << sep >> \o JoinWith(Tail(parts), sep)

\* the parameter string that states an intent
ParameterOf(intent) ==
    LET setting(key, entries) ==
            IF entries = << >> THEN << >>
            ELSE << key \o << "=" >> \o JoinWith(entries, intent.list_separator) >>
    IN  JoinWith(setting(<<"r","e","s","e","r","v","e","d","_","i","d","e","n","t","i","f","i","e","r","s">>, intent.reserved)
                    \o setting(<<"e","x","t","r","a","_","r","e","s","e","r","v","e","d","_","i","d","e","n","t","i","f","i","e","r","s">>, intent.extra_reserved)
                    \o setting(<<"r","e","s","e","r","v","e","d","_","i","d","e","n","t","i","f","i","e","r","s","_","f","i","l","e">>,
                               IF intent.reserved_file THEN << ReservedPath >> ELSE << >>)
                    \o setting(<<"r","e","n","a","m","e","_","o","v","e","r","r","i","d","e","s">>, intent.renames)
                    \o setting(<<"r","e","n","a","m","e","_","o","v","e","r","r","i","d","e","s","_","f","i","l","e">>,
                               IF intent.rename_file THEN << RenamePath >> ELSE << >>),
                 intent.parameter_separator)

\* the file system in which the two files hold the given lines
FileSystemOf(text) ==
    [ path \in { ReservedPath, RenamePath } |->
        IF path = ReservedPath THEN Join([ i \in DOMAIN text.reserved |-> text.reserved[i] \o << "\n" >> ])
        ELSE Join([ i \in DOMAIN text.renames |-> text.renames[i] \o << "\n" >> ]) ]

InitConfig ==
    /\ subject = "GeneratorConfig"
    /\ object = None
    /\ dicts = EmptyDict
    /\ wrappers = EmptyDict
    /\ call = [ op |-> "none" ]
    /\ result = [ err |-> "none", val |-> None ]
    /\ log = << >>
    /\ history = << >>

\* GeneratorConfig.from_parameter_string(ParameterOf(intent)), the files
\* holding the given text; object is the configuration constructed. The
\* method keeps no state between calls: one call shows all it does.
FromParameterString(intent, text) ==
    /\ subject = "GeneratorConfig"
    /\ call.op = "none"
    /\ \E st \in { from_parameter_string(ParameterOf(intent), FileSystemOf(text)) } :
          /\ object' = st.val
          /\ result' = st
    /\ call' = [ op |-> "from_parameter_string", parameter |-> ParameterOf(intent),
                 intent |-> intent, text |-> text ]
    /\ UNCHANGED << subject, dicts, wrappers, log, history >>

NextConfig == \E intent \in Intents, text \in FileTexts : FromParameterString(intent, text)

SpecConfig == InitConfig /\ [][NextConfig]_vars

----------------------------------------------------------------------------

(* The retry loops of TypeMapper._make_unique_type_name and of                *)
(* NameResolver._make_unique, one test of a candidate per step. call holds    *)
(* the arguments and the local variables of the call in progress.             *)

\* the number of numbered collision forms that may be taken when the call is made
MaxColliding == 3

\* the attempts the loop is followed for
MaxAttempts == MaxColliding + 3

\* the suffixes a unique identifier is composed for
UniqueSuffixes == { <<"T","h","i","n","g">>, << >> }

\* a call of either method with prefix F, made when some of these identifiers
\* are reserved and some assigned: the bare form, the collision forms up to
\* MaxColliding, and one other. The mapper holds the assigned ones in its
\* symbol table; the resolver holds every identifier it assigned in _reserved.
InitUnique ==
    /\ subject \in { "TypeMapper", "NameResolver" }
    /\ \E suffix \in UniqueSuffixes :
          LET pool == { <<"F">> \o suffix, <<"F","P","r","o","t","o">> \o suffix, <<"F","O","t","h","e","r">> }
                         \cup { <<"F","P","r","o","t","o">> \o suffix \o Decimal(k) : k \in 1 .. MaxColliding }
              mapper(reserved, assigned) ==
                  [ new_TypeMapper([ convert_unsigned_to_blueprint |-> FALSE,
                                     reserved_identifiers |-> reserved,
                                     rename_overrides |-> NoOverrides,
                                     include_package_in_names |-> TRUE ])
                    EXCEPT !.symbol_table =
                       [ n \in { <<"p","k","g",".">> \o identifier : identifier \in assigned } |->
                           [ kind |-> "message", ue_name |-> DropFirst(n, 4) ] ] ]
              resolver(reserved) ==
                  new_NameResolver([ reserved_symbols |-> reserved, overrides |-> NoOverrides,
                                     collision_suffix |-> <<"P","r","o","t","o">> ], {})
          IN  \E reserved \in SUBSET pool :
                 \E assigned \in SUBSET (pool \ reserved) :
                    /\ subject = "NameResolver" => assigned = {}
                    /\ object = IF subject = "TypeMapper" THEN mapper(reserved, assigned)
                                ELSE resolver(reserved)
                    /\ call = [ op |-> "make_unique", prefix |-> <<"F">>, suffix |-> suffix,
                                pc |-> "bare", attempt |-> 0, taken |-> reserved \cup assigned ]
    /\ result = [ err |-> "none", val |-> None ]
    /\ dicts = EmptyDict
    /\ wrappers = EmptyDict
    /\ log = << >>
    /\ history = << >>

\* self._is_name_available(candidate) / self._is_available(candidate)
CandidateAvailable(candidate) ==
    IF subject = "TypeMapper"
    THEN is_name_available(candidate, object.symbol_table, object.reserved_identifiers)
    ELSE is_available(object, candidate)

\* return candidate; NameResolver._make_unique adds it to self._reserved first
ReturnCandidate(candidate) ==
    /\ call' = [ call EXCEPT !.pc = "done" ]
    /\ result' = Ok(candidate)
    /\ object' = IF subject = "NameResolver"
                 THEN [ object EXCEPT !.reserved = @ \cup { candidate } ]
                 ELSE object

\* the test of prefix + suffix before the loop
TryBare ==
    /\ call.pc = "bare"
    /\ IF CandidateAvailable(call.prefix \o call.suffix)
       THEN ReturnCandidate(call.prefix \o call.suffix)
       ELSE /\ call' = [ call EXCEPT !.pc = "loop", !.attempt = 1 ]
            /\ UNCHANGED << object, result >>
    /\ UNCHANGED << subject, dicts, wrappers, log, history >>

\* one iteration of the while-loop
TryAttempt ==
    /\ call.pc = "loop"
    /\ call.attempt <= MaxAttempts
    /\ \E candidate \in { IF subject = "TypeMapper"
                          THEN collision_candidate(call.prefix, call.suffix, call.attempt)
                          ELSE unique_candidate(object, call.prefix, call.suffix, call.attempt) } :
          IF CandidateAvailable(candidate)
          THEN ReturnCandidate(candidate)
          ELSE /\ call' = [ call EXCEPT !.attempt = @ + 1 ]
               /\ UNCHANGED << object, result >>
    /\ UNCHANGED << subject, dicts, wrappers, log, history >>

NextUnique == TryBare \/ TryAttempt

\* a call that is running keeps running
SpecUnique == InitUnique /\ [][NextUnique]_vars /\ WF_vars(NextUnique)

----------------------------------------------------------------------------

(* The walks of register_file and map_file over a schema graph, one type or   *)
(* one field per step. call holds the file, the work that is still to do      *)
(* (todo, in the order the code does it), the attributes found on entry and   *)
(* the fields converted so far.                                               *)

\* schema graphs with reference cycles: loop.proto, whose Node has fields of
\* its own type and whose Ping and Pong refer to each other, and left.proto
\* and right.proto, whose messages refer to each other across the two files
CyclicFiles ==
    LET Ref(id, full_name) == [ id |-> id, full_name |-> full_name, blueprint_type |-> TRUE ]
        Mode == EnumType(26, <<"M","o","d","e">>, <<"l","o","o","p",".","M","o","d","e">>, TRUE)
        Node == MessageType(21, <<"N","o","d","e">>, <<"l","o","o","p",".","N","o","d","e">>,
                    << TypeField(<<"n","e","x","t">>, "optional", "message", Ref(21, <<"l","o","o","p",".","N","o","d","e">>), None),
                       TypeField(<<"c","h","i","l","d","r","e","n">>, "repeated", "message", Ref(21, <<"l","o","o","p",".","N","o","d","e">>), None),
                       TypeField(<<"m","o","d","e">>, "required", "enum", Mode, None) >>,
                    << >>, << >>, << >>, TRUE)
        Pong == MessageType(23, <<"P","o","n","g">>, <<"l","o","o","p",".","P","i","n","g",".","P","o","n","g">>,
                    << TypeField(<<"p","i","n","g">>, "required", "message", Ref(22, <<"l","o","o","p",".","P","i","n","g">>), None),
                       MapField(<<"p","i","n","g","s">>, MessageValueMapEntry(<<"s","t","r","i","n","g">>, Ref(22, <<"l","o","o","p",".","P","i","n","g">>))) >>,
                    << >>, << >>, << >>, TRUE)
        Ping == MessageType(22, <<"P","i","n","g">>, <<"l","o","o","p",".","P","i","n","g">>,
                    << TypeField(<<"p","o","n","g">>, "optional", "message", Pong, None) >>,
                    << Pong >>, << >>, << >>, TRUE)
        Left == MessageType(24, <<"L","e","f","t">>, <<"l","e","f","t",".","L","e","f","t">>,
                    << TypeField(<<"r","i","g","h","t">>, "optional", "message", Ref(25, <<"r","i","g","h","t",".","R","i","g","h","t">>), None) >>,
                    << >>, << >>, << >>, TRUE)
        Right == MessageType(25, <<"R","i","g","h","t">>, <<"r","i","g","h","t",".","R","i","g","h","t">>,
                    << TypeField(<<"l","e","f","t">>, "repeated", "message", Left, None),
                       ScalarField(<<"w","e","i","g","h","t">>, "optional", <<"d","o","u","b","l","e">>, None) >>,
                    << >>, << >>, << >>, TRUE)
    IN  << ProtoFile(<<"l","o","o","p",".","p","r","o","t","o">>, <<"l","o","o","p">>, << Node, Ping >>, << Mode >>),
           ProtoFile(<<"l","e","f","t",".","p","r","o","t","o">>, <<"l","e","f","t">>, << Left >>, << >>),
           ProtoFile(<<"r","i","g","h","t",".","p","r","o","t","o">>, <<"r","i","g","h","t">>, << Right >>, << >>) >>

\* odd.proto: a message whose fields combine the kinds, cardinalities and
\* oneof memberships a Field object can hold, among them fields that refer to
\* a type by type_name alone
OddFile ==
    LET Hidden == EnumType(31, <<"H","i","d","d","e","n">>, <<"o","d","d",".","H","i","d","d","e","n">>, FALSE)
        Opaque == MessageType(32, <<"O","p","a","q","u","e">>, <<"o","d","d",".","O","p","a","q","u","e">>, << >>, << >>, << >>, << >>, FALSE)
        Plain == MessageType(33, <<"P","l","a","i","n">>, <<"o","d","d",".","P","l","a","i","n">>, << >>, << >>, << >>, << >>, TRUE)
        ByName(name, cardinality, kind, t, oneof) ==
            [ TypeField(name, cardinality, kind, t, oneof) EXCEPT !.resolved_type = NoType ]
        Bag == MessageType(34, <<"B","a","g">>, <<"o","d","d",".","B","a","g">>,
                   << [ MapField(<<"b","y","_","n","a","m","e">>, ScalarMapEntry(<<"s","t","r","i","n","g">>, <<"u","i","n","t","3","2">>))
                          EXCEPT !.cardinality = "optional", !.oneof = <<"p","i","c","k">> ],
                      [ MapField(<<"i","n","d","e","x">>, MessageValueMapEntry(<<"i","n","t","3","2">>, Plain))
                          EXCEPT !.cardinality = "required" ],
                      ScalarField(<<"t","a","g","s">>, "repeated", <<"s","t","r","i","n","g">>, <<"p","i","c","k">>),
                      TypeField(<<"p","a","r","t","s">>, "repeated", "message", Plain, None),
                      ScalarField(<<"i","d">>, "required", <<"u","i","n","t","6","4">>, None),
                      TypeField(<<"p","l","a","i","n">>, "required", "message", Plain, None),
                      ScalarField(<<"t","i","t","l","e">>, "optional", <<"s","t","r","i","n","g">>, None),
                      ScalarField(<<"a","l","i","a","s">>, "required", <<"s","t","r","i","n","g">>, <<"p","i","c","k">>),
                      TypeField(<<"s","e","c","r","e","t">>, "optional", "message", Opaque, None),
                      ByName(<<"s","e","c","r","e","t","_","b","y","_","n","a","m","e">>, "optional", "message", Opaque, None),
                      ByName(<<"m","o","o","d","_","b","y","_","n","a","m","e">>, "optional", "enum", Hidden, None),
                      TypeField(<<"m","o","o","d">>, "optional", "enum", Hidden, <<"p","i","c","k">>),
                      ScalarField(<<"r","a","t","i","o">>, "optional", <<"d","o","u","b","l","e">>, None) >>,
                   << >>, << >>,
                   << [ name |-> <<"p","i","c","k">>, full_name |-> <<"o","d","d",".","B","a","g",".","p","i","c","k">>, fields |-> << 1, 3, 8, 12 >> ] >>,
                   TRUE)
    IN  ProtoFile(<<"o","d","d",".","p","r","o","t","o">>, <<"o","d","d">>, << Opaque, Plain, Bag >>, << Hidden >>)

\* files whose one message has one field that refers to no type object: a
\* message field and an enum field without resolved_type and without type_name
\* (the latter with an empty one), map fields whose key or value is such a
\* reference, a map field whose key names a type nobody declares and whose
\* value names none, and a message field that names a type nobody declares
BrokenFiles ==
    LET Unnamed(kind, type_name) ==
            [ name |-> <<"l","o","s","t">>, cardinality |-> "optional", kind |-> kind, scalar |-> None,
              type_name |-> type_name, resolved_type |-> NoType, map_entry |-> NoMapEntry,
              oneof |-> None ]
        fields == << Unnamed("message", None),
                     Unnamed("enum", << >>),
                     MapField(<<"l","o","s","t">>, [ NoMapEntry EXCEPT !.present = TRUE, !.key_kind = "enum" ]),
                     MapField(<<"l","o","s","t">>, [ ScalarMapEntry(<<"s","t","r","i","n","g">>, None)
                                            EXCEPT !.value_kind = "message" ]),
                     MapField(<<"l","o","s","t">>, [ NoMapEntry EXCEPT !.present = TRUE, !.key_kind = "enum",
                                                            !.key_type_name = <<"b","r","o","k","e","n",".","N","o","w","h","e","r","e">>,
                                                            !.value_kind = "message" ]),
                     Unnamed("message", <<"b","r","o","k","e","n",".","N","o","w","h","e","r","e">>) >>
    IN  [ i \in DOMAIN fields |->
            ProtoFile(<<"b","r","o","k","e","n">> \o Decimal(i) \o <<".","p","r","o","t","o">>, <<"b","r","o","k","e","n">>,
                      << MessageType(40 + i, <<"B","r","o","k","e","n">>, <<"b","r","o","k","e","n",".","B","r","o","k","e","n">> \o Decimal(i),
                                     << fields[i] >>, << >>, << >>, << >>, TRUE) >>,
                      << >>) ]

\* clash.proto, package baz: the message baz.Widget, which the rename
\* overrides of the second configuration name FThing, comes after the message
\* baz.Thing and its nested types and before the message baz.Later
ClashFile ==
    LET Level == EnumType(51, <<"L","e","v","e","l">>, <<"b","a","z",".","L","e","v","e","l">>, TRUE)
        Kind == EnumType(52, <<"K","i","n","d">>, <<"b","a","z",".","T","h","i","n","g",".","K","i","n","d">>, TRUE)
        Inner == MessageType(53, <<"I","n","n","e","r">>, <<"b","a","z",".","T","h","i","n","g",".","I","n","n","e","r">>, << >>, << >>, << >>, << >>, TRUE)
        Thing == MessageType(54, <<"T","h","i","n","g">>, <<"b","a","z",".","T","h","i","n","g">>,
                     << TypeField(<<"k","i","n","d">>, "optional", "enum", Kind, None) >>,
                     << Inner >>, << Kind >>, << >>, TRUE)
        Deep == MessageType(55, <<"D","e","e","p">>, <<"b","a","z",".","W","i","d","g","e","t",".","D","e","e","p">>, << >>, << >>, << >>, << >>, TRUE)
        Widget == MessageType(56, <<"W","i","d","g","e","t">>, <<"b","a","z",".","W","i","d","g","e","t">>,
                      << TypeField(<<"t","h","i","n","g">>, "required", "message", Thing, None) >>,
                      << Deep >>, << >>, << >>, TRUE)
        Later == MessageType(57, <<"L","a","t","e","r">>, <<"b","a","z",".","L","a","t","e","r">>, << >>, << >>, << >>, << >>, TRUE)
    IN  ProtoFile(<<"c","l","a","s","h",".","p","r","o","t","o">>, <<"b","a","z">>, << Thing, Widget, Later >>, << Level >>)

\* edge.proto, package edge: types whose full name is empty, is the package
\* itself, is the package and a dot, or is made of dots alone
EdgeFile ==
    LET Blank == EnumType(61, << >>, << >>, TRUE)
        Edge == MessageType(62, <<"e","d","g","e">>, <<"e","d","g","e">>, << >>, << >>, << >>, << >>, TRUE)
        Dotted == MessageType(63, << >>, <<"e","d","g","e",".">>, << >>, << >>, << >>, << >>, TRUE)
        Dots == MessageType(64, << >>, <<".",".">>, << >>, << >>, << >>, << >>, TRUE)
    IN  ProtoFile(<<"e","d","g","e",".","p","r","o","t","o">>, <<"e","d","g","e">>, << Edge, Dotted, Dots >>, << Blank >>)

\* twin.proto, package twin: a message with a oneof and fields of the types
\* named _ and __, a message named as the oneof's wrapper is, and a message
\* named as the optional wrapper of FString is
TwinFile ==
    LET Under == MessageType(71, <<"_">>, <<"t","w","i","n",".","_">>, << >>, << >>, << >>, << >>, TRUE)
        Unders == MessageType(72, <<"_","_">>, <<"t","w","i","n",".","_","_">>, << >>, << >>, << >>, << >>, TRUE)
        Bag == MessageType(73, <<"B","a","g">>, <<"t","w","i","n",".","B","a","g">>,
                   << ScalarField(<<"a">>, "optional", <<"s","t","r","i","n","g">>, <<"p","i","c","k">>),
                      TypeField(<<"b">>, "optional", "message", Under, None),
                      TypeField(<<"c">>, "optional", "message", Unders, None) >>,
                   << >>, << >>,
                   << [ name |-> <<"p","i","c","k">>, full_name |-> <<"t","w","i","n",".","B","a","g",".","p","i","c","k">>, fields |-> << 1 >> ] >>,
                   TRUE)
        Wrapper == MessageType(74, <<"B","a","g","P","i","c","k","O","n","e","o","f">>, <<"t","w","i","n",".","B","a","g","P","i","c","k","O","n","e","o","f">>, << >>, << >>, << >>, << >>, TRUE)
        Optional == MessageType(75, <<"P","r","o","t","o","O","p","t","i","o","n","a","l","T","w","i","n","F","S","t","r","i","n","g">>, <<"t","w","i","n",".","P","r","o","t","o","O","p","t","i","o","n","a","l","T","w","i","n","F","S","t","r","i","n","g">>,
                        << >>, << >>, << >>, << >>, TRUE)
    IN  ProtoFile(<<"t","w","i","n",".","p","r","o","t","o">>, <<"t","w","i","n">>, << Bag, Wrapper, Optional, Under, Unders >>, << >>)

\* the files a walk is followed over
WalkFiles == CyclicFiles \o << OddFile >> \o BrokenFiles \o << ClashFile, EdgeFile, TwinFile >>

\* the work items of one kind for the elements of a list, in the list's order
WorkFor(k, items) == [ i \in DOMAIN items |-> [ k |-> k, x |-> items[i] ] ]

\* _register_message as it would be if, after the nested types, it also
\* registered the message types the fields of the message refer to
types_registered_after_with_field_types(type) ==
    LET messages == UNION { Range(WalkFiles[i].messages) : i \in DOMAIN WalkFiles }
        known == messages \cup UNION { Range(m.nested_messages) : m \in messages }
        referring == IF type.kind = "message"
                     THEN SelectSeq(type.fields, LAMBDA f : f.kind = "message")
                     ELSE << >>
    IN  (IF type.kind = "message"
         THEN WorkFor("register", type.nested_enums) \o WorkFor("register", type.nested_messages)
         ELSE << >>)
        \o [ i \in DOMAIN referring |->
               [ k |-> "register",
                 x |-> CHOOSE m \in known : m.id = referring[i].resolved_type.id ] ]

\* the types _register_message goes on to register after the message itself:
\* its nested enums, then its nested messages; _register_enum registers none
types_registered_after(type) ==
    IF type.kind = "message"
    THEN WorkFor("register", type.nested_enums) \o WorkFor("register", type.nested_messages)
    ELSE << >>

\* what a call has to do, before anything of it is done: register_file enters
\* the package scope, registers the enums and the messages of the file and
\* leaves the scope; map_file then enters its own scope, converts the
\* messages and the enums and leaves
work_of_call(op, proto_file) ==
    << [ k |-> "enter_registration", x |-> None ] >>
        \o WorkFor("register", proto_file.enums) \o WorkFor("register", proto_file.messages)
        \o << [ k |-> "leave_registration", x |-> None ] >>
        \o (IF op = "map_file"
            THEN << [ k |-> "enter_conversion", x |-> None ] >>
                    \o WorkFor("convert_message", proto_file.messages)
                    \o WorkFor("convert_enum", proto_file.enums)
                    \o << [ k |-> "leave_conversion", x |-> None ] >>
            ELSE << >>)

\* what is left to do once an exception is raised: the finally clause of the
\* scope the walk is in
work_after_raise(todo) ==
    LET leaving == SelectSeq(todo, LAMBDA w : w.k \in { "leave_registration", "leave_conversion" })
    IN  << Head(leaving) >>

\* a mapper walks a file with register_file or map_file; it may have mapped
\* odd.proto and registered other files before. entry is the state on entry.
InitWalk ==
    /\ subject = "TypeMapper"
    /\ \E config \in Configs, f \in DOMAIN WalkFiles, op \in { "register_file", "map_file" } :
          \E before \in SUBSET (DOMAIN CyclicFiles \ { f }), mapped \in BOOLEAN :
             LET fresh == [ self |-> new_TypeMapper(config), dicts |-> [ d \in {0} |-> << >> ],
                            wrappers |-> EmptyDict, err |-> "none", val |-> None, log |-> << >>,
                            begun |-> {}, completed |-> {} ]
                 others == SelectSeq(CyclicFiles, LAMBDA b : \E i \in before : b = CyclicFiles[i])
             IN  \E st \in { register_files(IF mapped THEN map_file(fresh, OddFile) ELSE fresh,
                                            others) } :
                    \E ready \in { [ st EXCEPT
                                       !.dicts = [ d \in LiveDicts(st) |-> st.dicts[d] ],
                                       !.wrappers = [ w \in LiveWrappers(st, "register_file") |->
                                                        [ st.wrappers[w] EXCEPT !.created = FALSE ] ],
                                       !.val = None, !.log = << >> ] } :
                       /\ object = ready.self
                       /\ dicts = ready.dicts
                       /\ wrappers = ready.wrappers
                       /\ history = [ begun |-> ready.begun, completed |-> ready.completed,
                                      mapped |-> mapped ]
                       /\ call = [ op |-> op, file |-> f, todo |-> work_of_call(op, WalkFiles[f]),
                                   entry |-> ready, previous |-> ready.self, converted |-> << >> ]
    /\ result = [ err |-> "none", val |-> None ]
    /\ log = << >>

\* the state the walk is in
Walking ==
    [ self |-> object, dicts |-> dicts, wrappers |-> wrappers, err |-> result.err,
      val |-> result.val, log |-> log, begun |-> history.begun, completed |-> history.completed ]

\* the walk has done one item of its work and is in state st, with todo left
Walked(st, todo) ==
    /\ object' = st.self
    /\ dicts' = st.dicts
    /\ wrappers' = st.wrappers
    /\ result' = [ err |-> st.err, val |-> st.val ]
    /\ log' = st.log
    /\ history' = [ history EXCEPT !.begun = st.begun, !.completed = st.completed ]
    /\ call' = [ call EXCEPT
                   !.todo = IF st.err # "none" /\ result.err = "none"
                            THEN work_after_raise(todo) ELSE todo,
                   !.previous = IF Head(call.todo).k \in { "enter_registration", "enter_conversion" }
                                THEN object ELSE @,
                   !.converted = IF Head(call.todo).k = "convert_field" /\ st.err = "none"
                                 THEN Append(@, [ src |-> Head(call.todo).x, ue |-> st.val ])
                                 ELSE @ ]
    /\ UNCHANGED subject

\* with self._package_scope(proto_file.package), and the assignments of
\* map_file before its try block
EnterScope ==
    /\ call.todo # << >>
    /\ LET proto_file == WalkFiles[call.file]
       IN  \/ /\ Head(call.todo).k = "enter_registration"
              /\ \E st \in { [ Walking EXCEPT !.self.package = proto_file.package,
                                              !.begun = @ \cup { proto_file.name } ] } :
                    Walked(st, Tail(call.todo))
           \/ /\ Head(call.todo).k = "enter_conversion"
              /\ \E st \in { [ enter_wrapper_scope([ Walking EXCEPT !.self.package = proto_file.package ])
                                 EXCEPT !.self.current_file_suffix = sanitize_file_identifier(proto_file.name),
                                        !.self.current_proto_file_name = proto_file.name ] } :
                    Walked(st, Tail(call.todo))

\* _register_enum or _register_message for the next type: its first three
\* statements, the rest being more work
RegisterNext ==
    /\ call.todo # << >>
    /\ Head(call.todo).k = "register"
    /\ LET type == Head(call.todo).x
           prefix == IF type.kind = "enum" THEN enum_prefix ELSE message_prefix
       IN  \E st \in { register_type(Walking, type, prefix, WalkFiles[call.file].name) } :
              Walked(st, types_registered_after(type) \o Tail(call.todo))

\* _convert_message for the next message (the lookup of its own identifier,
\* its fields, nested messages and nested enums being more work),
\* _convert_field for the next field, or _convert_enum for the next enum
ConvertNext ==
    /\ call.todo # << >>
    /\ LET item == Head(call.todo)
       IN  \/ /\ item.k = "convert_message"
              /\ \E ue_name \in { lookup_symbol(object.symbol_table, TypeRef(item.x), item.x.full_name) } :
                    Walked([ Walking EXCEPT !.err = ue_name.err, !.val = ue_name.val ],
                           WorkFor("convert_field", item.x.fields)
                              \o WorkFor("convert_message", item.x.nested_messages)
                              \o WorkFor("convert_enum", item.x.nested_enums)
                              \o Tail(call.todo))
           \/ /\ item.k = "convert_field"
              /\ \E st \in { convert_field(Walking, item.x) } : Walked(st, Tail(call.todo))
           \/ /\ item.k = "convert_enum"
              /\ \E st \in { convert_enum(Walking, item.x) } : Walked(st, Tail(call.todo))

\* the finally clauses: of _package_scope, and of map_file
LeaveScope ==
    /\ call.todo # << >>
    /\ LET proto_file == WalkFiles[call.file]
       IN  \/ /\ Head(call.todo).k = "leave_registration"
              /\ \E left \in { leave_package_scope(Walking, call.previous.package) } :
                    IF left.err # "none" THEN Walked(left, << >>)
                    ELSE Walked([ left EXCEPT !.completed = @ \cup { proto_file.name } ],
                                Tail(call.todo))
           \/ /\ Head(call.todo).k = "leave_conversion"
              /\ \E left \in { leave_package_scope(leave_file_scope(Walking, call.previous),
                                                   call.previous.package) } :
                    Walked(left, Tail(call.todo))

NextWalk == EnterScope \/ RegisterNext \/ ConvertNext \/ LeaveScope

SpecWalk == InitWalk /\ [][NextWalk]_vars

----------------------------------------------------------------------------

(* Registration calls of several threads on one mapper. Nothing in            *)
(* type_mapper.py takes a lock, so a thread may be preempted between any two  *)
(* statements: between the statement of _register_message that calls          *)
(* _resolve_type_name and the one that writes the symbol table, and around    *)
(* the assignments of _package_scope.                                         *)

\* a.proto and b.proto, each declaring one message named Thing in its
\* package, and c.proto, declaring the message baz.Widget, which the rename
\* overrides of the second configuration name FThing
RaceFiles ==
    << ProtoFile(<<"a",".","p","r","o","t","o">>, <<"a">>,
                 << MessageType(81, <<"T","h","i","n","g">>, <<"a",".","T","h","i","n","g">>, << >>, << >>, << >>, << >>, TRUE) >>, << >>),
       ProtoFile(<<"b",".","p","r","o","t","o">>, <<"b">>,
                 << MessageType(82, <<"T","h","i","n","g">>, <<"b",".","T","h","i","n","g">>, << >>, << >>, << >>, << >>, TRUE) >>, << >>),
       ProtoFile(<<"c",".","p","r","o","t","o">>, <<"b","a","z">>,
                 << MessageType(83, <<"W","i","d","g","e","t">>, <<"b","a","z",".","W","i","d","g","e","t">>, << >>, << >>, << >>, << >>, TRUE) >>, << >>) >>

\* the files a thread hands to register_files, by their position in RaceFiles
RaceBatches == { << 1 >>, << 2 >>, << 2, 1 >>, << 1, 3 >> }

Threads == { 1, 2 }

\* what register_files has to do for a list of files: for each file enter the
\* package scope, register its enums and its messages, leave the scope
RECURSIVE work_of_registration(_)
work_of_registration(proto_files) ==
    IF proto_files = << >> THEN << >>
    ELSE << [ k |-> "enter_registration", x |-> Head(proto_files) ] >>
            \o WorkFor("register", Head(proto_files).enums)
            \o WorkFor("register", Head(proto_files).messages)
            \o << [ k |-> "leave_registration", x |-> Head(proto_files) ] >>
            \o work_of_registration(Tail(proto_files))

\* two threads are about to call register_files on one new mapper; the
\* caller either serializes the calls or does not
InitRace ==
    /\ subject = "TypeMapper"
    /\ \E config \in Configs : object = new_TypeMapper(config)
    /\ dicts = [ d \in {0} |-> << >> ]
    /\ wrappers = EmptyDict
    /\ \E serialized \in BOOLEAN, batches \in [ Threads -> RaceBatches ] :
          call = [ op |-> "register_files", serialized |-> serialized,
                   threads |-> [ t \in Threads |->
                                   [ todo |-> work_of_registration(
                                                 [ i \in DOMAIN batches[t] |-> RaceFiles[batches[t][i]] ]),
                                     begun |-> FALSE, previous |-> << >>, file_name |-> None,
                                     pending |-> None, err |-> "none" ] ] ]
    /\ result = [ err |-> "none", val |-> None ]
    /\ log = << >>
    /\ history = [ begun |-> {}, completed |-> {}, mapped |-> FALSE ]

\* thread t is inside its call
InCall(t) == call.threads[t].begun /\ call.threads[t].todo # << >>

\* thread t may take its next step: it has one, and when the caller
\* serializes the calls no other thread is inside its call
MayRun(t) ==
    /\ call.threads[t].todo # << >>
    /\ call.serialized => \A u \in Threads \ { t } : ~ InCall(u)

\* thread t has taken a step that leaves it as thread says
Ran(t, thread) ==
    /\ call' = [ call EXCEPT !.threads[t] = [ thread EXCEPT !.begun = TRUE ] ]
    /\ UNCHANGED << subject, dicts, wrappers, result, history >>

\* _package_scope, up to its yield: previous = self._package; self._package = package
EnterPackageScope(t) ==
    LET thread == call.threads[t]
        item == Head(thread.todo)
    IN  /\ MayRun(t)
        /\ item.k = "enter_registration"
        /\ object' = [ object EXCEPT !.package = item.x.package ]
        /\ Ran(t, [ thread EXCEPT !.todo = Tail(@), !.file_name = item.x.name,
                                  !.previous = << object.package >> \o @ ])
        /\ UNCHANGED log

\* the first statement of _register_enum and of _register_message:
\* ue_name = self._resolve_type_name(full_name, prefix)
ResolveTypeName(t) ==
    LET thread == call.threads[t]
        item == Head(thread.todo)
        prefix == IF item.x.kind = "enum" THEN enum_prefix ELSE message_prefix
    IN  /\ MayRun(t)
        /\ item.k = "register"
        /\ thread.pending = None
        /\ \E resolved \in { resolve_type_name(item.x.full_name, prefix, object.package,
                                               object.symbol_table, object.reserved_identifiers,
                                               object.rename_overrides) } :
              IF resolved.err # "none"
              THEN Ran(t, [ thread EXCEPT !.err = resolved.err,
                                          !.todo = work_after_raise(@) ])
              ELSE Ran(t, [ thread EXCEPT !.pending = resolved.val ])
        /\ UNCHANGED << object, log >>

\* the second and third statements of _register_enum and of _register_message:
\* the writes of the symbol table and of the type-to-file index
StoreSymbol(t) ==
    LET thread == call.threads[t]
        item == Head(thread.todo)
    IN  /\ MayRun(t)
        /\ item.k = "register"
        /\ thread.pending # None
        /\ object' = [ object EXCEPT
                         !.symbol_table = store_symbol(@, item.x.full_name, item.x.kind, thread.pending),
                         !.type_file_index = Put(@, item.x.id, thread.file_name) ]
        /\ log' = Append(log, [ thread |-> t, full_name |-> item.x.full_name,
                                ue_name |-> thread.pending ])
        /\ Ran(t, [ thread EXCEPT !.pending = None,
                                  !.todo = types_registered_after(item.x) \o Tail(@) ])

\* _package_scope, its finally clause: self._package = previous
LeavePackageScope(t) ==
    LET thread == call.threads[t]
        item == Head(thread.todo)
    IN  /\ MayRun(t)
        /\ item.k = "leave_registration"
        /\ object' = leave_package_scope([ self |-> object ], Head(thread.previous)).self
        /\ Ran(t, [ thread EXCEPT !.previous = Tail(@),
                                  !.todo = IF thread.err # "none" THEN << >> ELSE Tail(@) ])
        /\ UNCHANGED log

NextRace ==
    \E t \in Threads :
       EnterPackageScope(t) \/ ResolveTypeName(t) \/ StoreSymbol(t) \/ LeavePackageScope(t)

SpecRace == InitRace /\ [][NextRace]_vars

----------------------------------------------------------------------------

(* Properties of the mapper and of the resolver                               *)

\* the identifiers a symbol table holds
IdentifiersOf(symbol_table) == { symbol_table[n].ue_name : n \in DOMAIN symbol_table }

\* the _resolve_type_name calls of the step's call that came before its i-th
\* and returned an identifier
ResolvedBefore(i) == { j \in DOMAIN log' : j < i /\ log'[j].err = "none" }

\* the full names that had an identifier when the i-th _resolve_type_name call
\* of the step's call was made
KnownBefore(i) ==
    DOMAIN object.symbol_table \cup { log'[j].full_name : j \in ResolvedBefore(i) }

\* the identifier such a name had then
IdentifierBefore(i, full_name) ==
    IF full_name \in DOMAIN object.symbol_table THEN object.symbol_table[full_name].ue_name
    ELSE log'[CHOOSE j \in ResolvedBefore(i) : log'[j].full_name = full_name].ue_name

\* the identifiers assigned when that call was made
AssignedBefore(i) ==
    IdentifiersOf(object.symbol_table) \cup { log'[j].ue_name : j \in ResolvedBefore(i) }

\* the fields of mapped messages, each with the model.Field it was converted from
RECURSIVE FieldPairs(_, _)
FieldPairs(ue_messages, messages) ==
    IF ue_messages = << >> THEN {}
    ELSE { [ ue |-> Head(ue_messages).fields[i], src |-> Head(messages).fields[i] ] :
              i \in DOMAIN Head(ue_messages).fields }
            \cup FieldPairs(Head(ue_messages).nested_messages, Head(messages).nested_messages)
            \cup FieldPairs(Tail(ue_messages), Tail(messages))

\* the last call was map_file on a TypeMapper and returned a UEProtoFile
MapFileReturned == subject = "TypeMapper" /\ call.op = "map_file" /\ result.err = "none"

\* the fields of the file the last map_file call returned, with their sources
ReturnedFieldPairs == FieldPairs(result.val.messages, Files[call.files[1]].messages)

\* C1: after any sequence of register_file, register_files and map_file calls
\* on a TypeMapper, the identifiers the symbol table holds for distinct full
\* names are pairwise distinct and none is a configured reserved identifier;
\* the same holds of the names NameResolver.register has returned.
C1_IdentifiersDistinctAndUnreserved ==
    /\ subject = "TypeMapper" =>
         /\ \A m, n \in DOMAIN object.symbol_table :
               m # n => object.symbol_table[m].ue_name # object.symbol_table[n].ue_name
         /\ \A n \in DOMAIN object.symbol_table :
               object.symbol_table[n].ue_name \notin object.config.reserved_identifiers
    /\ subject = "NameResolver" =>
         /\ \A m, n \in DOMAIN object.symbols : m # n => object.symbols[m] # object.symbols[n]
         /\ \A n \in DOMAIN object.symbols :
               object.symbols[n] \notin object.rules.reserved_symbols
         /\ (call.op = "register" /\ result.err = "none") =>
               /\ call.full_name \in DOMAIN object.symbols
               /\ result.val = object.symbols[call.full_name]

\* a mapper that had to step around a reserved identifier and around two
\* assigned ones
C1_Witness ==
    /\ subject = "TypeMapper"
    /\ { <<"F","P","r","o","t","o","V","e","c","t","o","r">>, <<"F","T","h","i","n","g">>, <<"F","P","r","o","t","o","T","h","i","n","g">>, <<"F","P","r","o","t","o","T","h","i","n","g","1">> }
          \subseteq IdentifiersOf(object.symbol_table)

\* C2: once a full name has an identifier, every later registration of it
\* (by register_file, register_files or map_file, with either prefix, from any
\* file and package) resolves to that identifier, and the name keeps that
\* identifier in the symbol table; NameResolver.register likewise returns the
\* name it returned before.
C2_IdentifierIsKept ==
    [][ /\ subject = "TypeMapper" =>
             /\ \A n \in DOMAIN object.symbol_table :
                   /\ n \in DOMAIN object'.symbol_table
                   /\ object'.symbol_table[n].ue_name = object.symbol_table[n].ue_name
             /\ \A i \in DOMAIN log' :
                   log'[i].full_name \in KnownBefore(i) =>
                      /\ log'[i].err = "none"
                      /\ log'[i].ue_name = IdentifierBefore(i, log'[i].full_name)
        /\ subject = "NameResolver" =>
             /\ \A n \in DOMAIN object.symbols :
                   n \in DOMAIN object'.symbols /\ object'.symbols[n] = object.symbols[n]
             /\ call'.full_name \in DOMAIN object.symbols =>
                   result'.err = "none" /\ result'.val = object.symbols[call'.full_name]
      ]_vars

\* map_file registered the message foo.Thing, whose name the enum of dup.proto
\* had been given EThing for, and resolved it to EThing again
C2_Witness ==
    /\ MapFileReturned
    /\ \E i \in DOMAIN log :
          /\ log[i].full_name = <<"f","o","o",".","T","h","i","n","g">>
          /\ log[i].prefix = message_prefix
          /\ log[i].ue_name = <<"E","T","h","i","n","g">>

\* the k-th identifier of the sequence bare, infix, infix1, infix2, ...
CandidateAt(prefix, suffix, k) ==
    IF k = 0 THEN prefix \o suffix
    ELSE IF k = 1 THEN prefix \o <<"P","r","o","t","o">> \o suffix
    ELSE prefix \o <<"P","r","o","t","o">> \o suffix \o Decimal(k - 1)

\* the first identifier of that sequence that is not among taken
FirstFree(prefix, suffix, taken) ==
    CandidateAt(prefix, suffix,
        CHOOSE k \in 0 .. Cardinality(taken) :
            /\ CandidateAt(prefix, suffix, k) \notin taken
            /\ \A j \in 0 .. (k - 1) : CandidateAt(prefix, suffix, j) \in taken)

\* the suffix of the composed candidate of a name registered under a package
ComposedSuffix(full_name, package) ==
    LET path == relative_symbol_path(full_name, package)
    IN  Join([ i \in DOMAIN path |-> to_pascal_case(path[i]) ])

\* C3: a name without override that is registered for the first time gets the
\* first identifier of the sequence prefix+suffix, prefix+Proto+suffix,
\* prefix+Proto+suffix+1, prefix+Proto+suffix+2, ... that is neither reserved
\* nor assigned: of the types with one composed candidate the first keeps the
\* bare candidate, the second gets the infix, the third infix 1, the fourth
\* infix 2, and a reserved candidate (FVector) yields the infix (FProtoVector).
C3_FirstFreeCandidate ==
    [][ subject = "TypeMapper" =>
          \A i \in DOMAIN log' :
             ( /\ log'[i].full_name \notin KnownBefore(i)
               /\ log'[i].full_name \notin DOMAIN object.config.rename_overrides ) =>
                /\ log'[i].err = "none"
                /\ log'[i].ue_name =
                      FirstFree(log'[i].prefix,
                                ComposedSuffix(log'[i].full_name, log'[i].package),
                                AssignedBefore(i) \cup object.config.reserved_identifiers)
      ]_vars

\* the fourth message named Thing was registered, after FThing, FProtoThing
\* and FProtoThing1 were assigned, and a Vector after that
C3_Witness ==
    /\ subject = "TypeMapper"
    /\ object.config.rename_overrides = NoOverrides
    /\ \E i, j \in DOMAIN log :
          /\ i < j
          /\ log[i].ue_name = <<"F","P","r","o","t","o","T","h","i","n","g","2">>
          /\ log[j].ue_name = <<"F","P","r","o","t","o","V","e","c","t","o","r">>

\* the identifier configured as the rename override of a full name
HasOverride(full_name) == full_name \in DOMAIN object.config.rename_overrides

OverrideOf(full_name) == Strip(object.config.rename_overrides[full_name])

\* C4: a name with a configured rename override is either given exactly the
\* override or its registration raises, whatever the prefix, the package and
\* the names registered before: it never gets a composed or collision-suffixed
\* identifier; registering it again returns the same identifier and leaves its
\* entry as it was; the fields map_file converts that refer to the type have
\* the override as base type.
C4_OverrideOrRaise ==
    [][ subject = "TypeMapper" =>
          /\ \A n \in DOMAIN object'.symbol_table :
                HasOverride(n) => object'.symbol_table[n].ue_name = OverrideOf(n)
          /\ \A i \in DOMAIN log' :
                HasOverride(log'[i].full_name) =>
                   /\ log'[i].err = "none" => log'[i].ue_name = OverrideOf(log'[i].full_name)
                   /\ log'[i].err # "none" => result'.err = log'[i].err
                   /\ log'[i].full_name \in KnownBefore(i) =>
                         /\ log'[i].err = "none"
                         /\ log'[i].ue_name = IdentifierBefore(i, log'[i].full_name)
                         /\ object'.symbol_table[log'[i].full_name].ue_name
                               = IdentifierBefore(i, log'[i].full_name)
          /\ (call'.op = "map_file" /\ result'.err = "none") =>
                \A p \in FieldPairs(result'.val.messages, Files[call'.files[1]].messages) :
                   /\ (p.src.kind \in {"message", "enum"} /\ HasOverride(p.src.type_name)) =>
                         p.ue.base_type = OverrideOf(p.src.type_name)
                   /\ ( /\ p.src.kind = "map"
                        /\ p.src.map_entry.value_kind \in {"message", "enum"}
                        /\ HasOverride(p.src.map_entry.value_type_name) ) =>
                         p.ue.map_value_type = OverrideOf(p.src.map_entry.value_type_name)
      ]_vars

\* map_file of bar/common.proto returned with bar.Vector, whose override is
\* " FBarVec ", registered as FBarVec and the field vec converted to it
C4_Witness ==
    /\ MapFileReturned
    /\ result.val.name = BarFile.name
    /\ object.symbol_table[<<"b","a","r",".","V","e","c","t","o","r">>].ue_name = <<"F","B","a","r","V","e","c">>
    /\ \E p \in ReturnedFieldPairs :
          p.src.type_name = <<"b","a","r",".","V","e","c","t","o","r">> /\ p.ue.base_type = <<"F","B","a","r","V","e","c">>

\* C5: registering a name whose rename override is a reserved identifier
\* raises ValueError and the name gets no entry, unless that identifier is
\* already assigned to that very name, in which case the registration
\* succeeds; for the TypeMapper and for NameResolver.register.
C5_ReservedOverrideRaises ==
    [][ /\ subject = "TypeMapper" =>
             \A i \in DOMAIN log' :
                LET n == log'[i].full_name
                IN  (HasOverride(n) /\ OverrideOf(n) \in object.config.reserved_identifiers) =>
                       IF n \in KnownBefore(i) /\ IdentifierBefore(i, n) = OverrideOf(n)
                       THEN log'[i].err = "none" /\ log'[i].ue_name = OverrideOf(n)
                       ELSE /\ log'[i].err = "ValueError"
                            /\ result'.err = "ValueError"
                            /\ n \notin DOMAIN object'.symbol_table
        /\ subject = "NameResolver" =>
             LET n == call'.full_name
                 overrides == object.rules.overrides
             IN  (n \in DOMAIN overrides /\ overrides[n] \in object.rules.reserved_symbols) =>
                    IF n \in DOMAIN object.symbols /\ object.symbols[n] = overrides[n]
                    THEN result'.err = "none" /\ result'.val = overrides[n]
                    ELSE result'.err = "ValueError" /\ n \notin DOMAIN object'.symbols
      ]_vars

\* register_file of math.proto raised at math.Vector, whose override is the
\* reserved FVector, after it had registered math.Thing
C5_Witness ==
    /\ subject = "TypeMapper"
    /\ call.op = "register_file"
    /\ result.err = "ValueError"
    /\ log # << >>
    /\ log[Len(log)].full_name = <<"m","a","t","h",".","V","e","c","t","o","r">>
    /\ OverrideOf(<<"m","a","t","h",".","V","e","c","t","o","r">>) \in object.config.reserved_identifiers
    /\ <<"m","a","t","h",".","T","h","i","n","g">> \in DOMAIN object.symbol_table
    /\ <<"m","a","t","h",".","V","e","c","t","o","r">> \notin DOMAIN object.symbol_table

\* the ids of the types a list of messages declares, nested ones included
RECURSIVE DeclaredIn(_)
DeclaredIn(messages) ==
    IF messages = << >> THEN {}
    ELSE { Head(messages).id } \cup { e.id : e \in Range(Head(messages).nested_enums) }
            \cup DeclaredIn(Head(messages).nested_messages) \cup DeclaredIn(Tail(messages))

\* the ids of the types a file declares
DeclaredBy(proto_file) ==
    DeclaredIn(proto_file.messages) \cup { e.id : e \in Range(proto_file.enums) }

\* the ids of the types the fields of a list of messages refer to
RECURSIVE ReferredTo(_)
ReferredTo(messages) ==
    IF messages = << >> THEN {}
    ELSE ( { f.resolved_type.id : f \in Range(Head(messages).fields) }
             \cup { f.map_entry.key_resolved_type.id : f \in Range(Head(messages).fields) }
             \cup { f.map_entry.value_resolved_type.id : f \in Range(Head(messages).fields) }
             \cup ReferredTo(Head(messages).nested_messages)
             \cup ReferredTo(Tail(messages)) ) \ { 0 }

\* the other files that declare a type the fields of a file refer to
ImportsOf(proto_file) ==
    { b \in Range(Files) :
         b # proto_file /\ DeclaredBy(b) \cap ReferredTo(proto_file.messages) # {} }

\* the scalar kinds of the fields of a list of messages, map keys and values
\* included, that _scalar_to_ue_type has no mapping for
RECURSIVE UnsupportedScalars(_)
UnsupportedScalars(messages) ==
    IF messages = << >> THEN {}
    ELSE ( { f.scalar : f \in { g \in Range(Head(messages).fields) : g.kind = "scalar" } }
             \cup { f.map_entry.key_scalar :
                       f \in { g \in Range(Head(messages).fields) :
                                  g.kind = "map" /\ g.map_entry.key_kind = "scalar" } }
             \cup { f.map_entry.value_scalar :
                       f \in { g \in Range(Head(messages).fields) :
                                  g.kind = "map" /\ g.map_entry.value_kind = "scalar" } }
             \cup UnsupportedScalars(Head(messages).nested_messages)
             \cup UnsupportedScalars(Tail(messages)) ) \ DOMAIN SCALAR_MAPPING

\* C6: when every file B that declares a type the fields of A refer to was
\* registered before map_file(A), and A has no field of a scalar kind the
\* mapper does not support, map_file(A) raises no lookup error (nothing
\* at all unless the registration of A's own types raises) and each such
\* field has the identifier B's type was assigned as its base type; when such
\* a B was never registered, map_file(A) raises KeyError and returns no file.
C6_CrossFileResolution ==
    [][ (subject = "TypeMapper" /\ call'.op = "map_file") =>
          LET A == Files[call'.files[1]]
          IN  /\ ( /\ \A b \in ImportsOf(A) : b.name \in history.completed
                   /\ UnsupportedScalars(A.messages) = {} ) =>
                    /\ result'.err # "KeyError"
                    /\ result'.err = "none" \/ \E i \in DOMAIN log' : log'[i].err = result'.err
                    /\ result'.err = "none" =>
                          \A p \in FieldPairs(result'.val.messages, A.messages) :
                             ( /\ p.src.kind \in {"message", "enum"}
                               /\ \E b \in ImportsOf(A) : p.src.resolved_type.id \in DeclaredBy(b) ) =>
                                p.ue.base_type = object.symbol_table[p.src.type_name].ue_name
              /\ (\E b \in ImportsOf(A) : b.name \notin history.begun) =>
                    /\ result'.err = "KeyError"
                    /\ result'.val = None
      ]_vars

\* map_file of bar/common.proto returned after foo/common.proto had been
\* registered by register_file or register_files, and its fields ref and shades
\* have the identifiers of foo.Thing and foo.Color
C6_Witness ==
    /\ MapFileReturned
    /\ result.val.name = BarFile.name
    /\ FooFile.name \in history.completed
    /\ \E p, q \in ReturnedFieldPairs :
          /\ p.src.type_name = <<"f","o","o",".","T","h","i","n","g">>
          /\ p.ue.base_type = object.symbol_table[<<"f","o","o",".","T","h","i","n","g">>].ue_name
          /\ q.src.type_name = <<"f","o","o",".","C","o","l","o","r">>
          /\ q.ue.base_type = <<"E","C","o","l","o","r">>

\* a field map_file wraps: optional or member of a oneof, not repeated, not a map
IsWrapped(field) ==
    /\ field.kind # "map"
    /\ field.cardinality # "repeated"
    /\ field.cardinality = "optional" \/ field.oneof # None

\* C7: in the file one map_file call returns, the wrapped fields with the same
\* base type carry the very same UEOptionalWrapper object, and optional_wrappers
\* holds exactly one wrapper for each base type of a wrapped field and no other
\* wrapper.
C7_OneWrapperPerBaseType ==
    MapFileReturned =>
       LET wrapped == { p.ue : p \in { q \in ReturnedFieldPairs : IsWrapped(q.src) } }
           list == result.val.optional_wrappers
       IN  /\ \A f \in wrapped :
                 /\ f.optional_wrapper \in DOMAIN wrappers
                 /\ wrappers[f.optional_wrapper].base_type = f.base_type
           /\ \A f, g \in wrapped :
                 f.base_type = g.base_type => f.optional_wrapper = g.optional_wrapper
           /\ \A i, j \in DOMAIN list :
                 i # j => /\ list[i] # list[j]
                          /\ wrappers[list[i]].base_type # wrappers[list[j]].base_type
           /\ Range(list) = { f.optional_wrapper : f \in wrapped }
           /\ { wrappers[w].base_type : w \in Range(list) } = { f.base_type : f \in wrapped }

\* map_file of foo/common.proto returned: the optional field name and the
\* oneof member alt, both strings, carry one wrapper, and the five base types
\* of its wrapped fields have a wrapper each
C7_Witness ==
    /\ MapFileReturned
    /\ result.val.name = FooFile.name
    /\ { wrappers[w].base_type : w \in Range(result.val.optional_wrappers) }
          = { <<"F","S","t","r","i","n","g">>, <<"u","i","n","t","3","2">>, <<"E","C","o","l","o","r">>, <<"F","T","h","i","n","g","I","n","n","e","r">>, <<"F","T","h","i","n","g">> }
    /\ \E p, q \in ReturnedFieldPairs :
          /\ p.src.name = <<"n","a","m","e">> /\ p.src.oneof = None
          /\ q.src.name = <<"a","l","t">> /\ q.src.oneof # None
          /\ p.ue.optional_wrapper = q.ue.optional_wrapper
          /\ p.ue.optional_wrapper # 0

\* C8: the optional_wrappers a map_file call returns are wrappers created
\* during that call for fields of the file it returns; no wrapper object that
\* existed before the call, in particular none of an earlier map_file call's
\* result, is in the list or carried by a field of the file.
C8_WrappersOfThisCallOnly ==
    [][ (subject = "TypeMapper" /\ call'.op = "map_file" /\ result'.err = "none") =>
          LET list == result'.val.optional_wrappers
              fields == FieldsOf(result'.val.messages)
          IN  /\ \A i \in DOMAIN list :
                    /\ wrappers'[list[i]].created
                    /\ list[i] \notin DOMAIN wrappers
                    /\ \E f \in fields : f.optional_wrapper = list[i]
              /\ \A f \in fields :
                    f.optional_wrapper # 0 =>
                       /\ wrappers'[f.optional_wrapper].created
                       /\ f.optional_wrapper \notin DOMAIN wrappers
      ]_vars

\* map_file returned wrappers after an earlier call on the same mapper had
\* returned wrappers
C8_Witness ==
    /\ MapFileReturned
    /\ history.mapped
    /\ result.val.optional_wrappers # << >>
    /\ \A w \in Range(result.val.optional_wrappers) : wrappers[w].created

\* C9: the optional wrappers synthesized for one base type while mapping two
\* files with different names have different identifiers (stated here of two
\* map_file calls made one after the other).
C9_WrapperIdentifiersDifferBetweenFiles ==
    [][ ( /\ subject = "TypeMapper"
          /\ call.op = "map_file" /\ result.err = "none"
          /\ call'.op = "map_file" /\ result'.err = "none"
          /\ result.val.name # result'.val.name ) =>
          \A v \in Range(result.val.optional_wrappers),
             w \in Range(result'.val.optional_wrappers) :
                wrappers[v].base_type = wrappers'[w].base_type =>
                   wrappers[v].ue_name # wrappers'[w].ue_name
      ]_vars

\* the signed or unsigned target scalar of an unsigned proto scalar
UnsignedTarget(scalar, convert_unsigned_to_blueprint) ==
    IF scalar \in { <<"u","i","n","t","3","2">>, <<"f","i","x","e","d","3","2">> }
    THEN (IF convert_unsigned_to_blueprint THEN <<"i","n","t","3","2">> ELSE <<"u","i","n","t","3","2">>)
    ELSE (IF convert_unsigned_to_blueprint THEN <<"i","n","t","6","4">> ELSE <<"u","i","n","t","6","4">>)

UnsignedScalars == { <<"u","i","n","t","3","2">>, <<"f","i","x","e","d","3","2">>, <<"u","i","n","t","6","4">>, <<"f","i","x","e","d","6","4">> }

UnsignedTargets == { <<"u","i","n","t","3","2">>, <<"u","i","n","t","6","4">> }

\* C10: with convert_unsigned_to_blueprint off the unsigned 32 and 64 bit
\* scalars map to uint32 and uint64, with it on to int32 and int64, and that
\* for the base type of a field, the element type of a repeated field, the key
\* and value types of a map and the base type of the optional wrapper alike;
\* with it on no field and no returned wrapper has uint32 or uint64 as its
\* base, element, key or value type.
C10_UnsignedToggleUniform ==
    MapFileReturned =>
       LET toggle == object.config.convert_unsigned_to_blueprint
           pairs == ReturnedFieldPairs
       IN  /\ \A p \in pairs :
                 (p.src.kind = "scalar" /\ p.src.scalar \in UnsignedScalars) =>
                    LET target == UnsignedTarget(p.src.scalar, toggle)
                    IN  /\ p.ue.base_type = target
                        /\ p.src.cardinality = "repeated" =>
                              p.ue.ue_type = <<"T","A","r","r","a","y","<">> \o target \o <<">">>
                        /\ IsWrapped(p.src) =>
                              /\ p.ue.optional_wrapper # 0
                              /\ wrappers[p.ue.optional_wrapper].base_type = target
                        /\ (p.src.cardinality = "required" /\ p.src.oneof = None) =>
                              p.ue.ue_type = target
           /\ \A p \in pairs :
                 p.src.kind = "map" =>
                    /\ (p.src.map_entry.key_kind = "scalar"
                          /\ p.src.map_entry.key_scalar \in UnsignedScalars) =>
                          p.ue.map_key_type = UnsignedTarget(p.src.map_entry.key_scalar, toggle)
                    /\ (p.src.map_entry.value_kind = "scalar"
                          /\ p.src.map_entry.value_scalar \in UnsignedScalars) =>
                          p.ue.map_value_type = UnsignedTarget(p.src.map_entry.value_scalar, toggle)
                    /\ p.ue.ue_type = <<"T","M","a","p","<">> \o p.ue.map_key_type \o <<","," ">>
                                         \o p.ue.map_value_type \o <<">">>
           /\ toggle =>
                 /\ \A p \in pairs :
                       /\ p.ue.base_type \notin UnsignedTargets
                       /\ p.ue.map_key_type \notin UnsignedTargets
                       /\ p.ue.map_value_type \notin UnsignedTargets
                       /\ p.ue.ue_type \notin { <<"T","A","r","r","a","y","<">> \o t \o <<">">> : t \in UnsignedTargets }
                 /\ \A w \in Range(result.val.optional_wrappers) :
                       wrappers[w].base_type \notin UnsignedTargets

\* map_file of foo/common.proto returned with the toggle on: the optional
\* uint32 count is int32 and so is its wrapper's base type, the repeated uint64
\* values is TArray<int64>, the uint32 values of the map lookup are int32
C10_Witness ==
    /\ MapFileReturned
    /\ object.config.convert_unsigned_to_blueprint
    /\ result.val.name = FooFile.name
    /\ \E p, q, r \in ReturnedFieldPairs :
          /\ p.src.scalar = <<"u","i","n","t","3","2">> /\ p.ue.base_type = <<"i","n","t","3","2">>
          /\ wrappers[p.ue.optional_wrapper].base_type = <<"i","n","t","3","2">>
          /\ q.src.scalar = <<"u","i","n","t","6","4">> /\ q.ue.ue_type = <<"T","A","r","r","a","y","<","i","n","t","6","4",">">>
          /\ r.src.kind = "map" /\ r.ue.map_value_type = <<"i","n","t","3","2">>

\* the ids of the types a field refers to: its resolved type, for a map field
\* the resolved types of its key and of its value
FieldTypeIds(field) ==
    ( IF field.kind = "map"
      THEN { field.map_entry.key_resolved_type.id, field.map_entry.value_resolved_type.id }
      ELSE IF field.kind \in {"message", "enum"} THEN { field.resolved_type.id }
      ELSE {} ) \ { 0 }

\* the names of the files other than proto_file that declare one of the types
DeclaringFiles(ids, proto_file) ==
    { b.name : b \in { c \in Range(Files) :
                          c.name # proto_file.name /\ DeclaredBy(c) \cap ids # {} } }

\* C11: the dependent_files of every field map_file(F) converts is sorted and
\* free of duplicates and holds exactly the names of the files other than F
\* that declare the field's resolved type (for a map field, the resolved types
\* of its key and value): nothing for a scalar field and for a field whose
\* type F declares.
C11_DependentFiles ==
    MapFileReturned =>
       \A p \in ReturnedFieldPairs :
          LET deps == p.ue.dependent_files
          IN  /\ \A i, j \in DOMAIN deps : i < j => StrLess(deps[i], deps[j])
              /\ Range(deps) = DeclaringFiles(FieldTypeIds(p.src), Files[call.files[1]])

\* map_file of bar/common.proto returned: the map widgets, from an enum of
\* foo/common.proto to a message of foo_common.proto, names both files in
\* order, the field vec of a type of bar/common.proto names none, the scalar
\* label names none
C11_Witness ==
    /\ MapFileReturned
    /\ result.val.name = BarFile.name
    /\ \E p, q, r \in ReturnedFieldPairs :
          /\ p.src.name = <<"w","i","d","g","e","t","s">>
          /\ p.ue.dependent_files = << FooFile.name, BazFile.name >>
          /\ q.src.name = <<"v","e","c">> /\ q.ue.dependent_files = << >>
          /\ r.src.name = <<"l","a","b","e","l">> /\ r.ue.dependent_files = << >>

\* the full name and the kind of every type a list of messages declares
RECURSIVE NamedIn(_)
NamedIn(messages) ==
    IF messages = << >> THEN {}
    ELSE { [ full_name |-> Head(messages).full_name, kind |-> "message" ] }
            \cup { [ full_name |-> e.full_name, kind |-> "enum" ] :
                      e \in Range(Head(messages).nested_enums) }
            \cup NamedIn(Head(messages).nested_messages) \cup NamedIn(Tail(messages))

\* the role prefixes of the types of the given full name that the files of
\* the given package declare: E for an enum, F for a message
RolePrefixes(full_name, package) ==
    { IF t.kind = "enum" THEN <<"E">> ELSE <<"F">> :
         t \in { u \in UNION { NamedIn(b.messages)
                                 \cup { [ full_name |-> e.full_name, kind |-> "enum" ] :
                                           e \in Range(b.enums) } :
                               b \in { c \in Range(Files) : c.package = package } } :
                    u.full_name = full_name } }

\* the dot-separated segments of a name
Segments(name) == SplitNonEmpty(name, {"."}, << >>)

\* the segments of a full name that follow those of the package; all of them
\* when the name does not lie in the package
SegmentsAfterPackage(full_name, package) ==
    LET s == Segments(full_name)
        p == Segments(package)
    IN  IF Len(p) < Len(s) /\ SubSeq(s, 1, Len(p)) = p
        THEN SubSeq(s, Len(p) + 1, Len(s))
        ELSE s

\* the PascalCase form of a segment: underscores and blanks dropped, the
\* first character and every character after one of them in upper case
PascalForm(segment) ==
    Join([ i \in DOMAIN segment |->
              IF segment[i] \in {"_", " "} THEN << >>
              ELSE IF i = 1 \/ segment[i - 1] \in {"_", " "} THEN << Upper(segment[i]) >>
              ELSE << segment[i] >> ])

\* the concatenated PascalCase forms of the segments after the package
PascalPath(full_name, package) ==
    LET s == SegmentsAfterPackage(full_name, package)
    IN  Join([ i \in DOMAIN s |-> PascalForm(s[i]) ])

PascalFullPath(full_name) ==
    LET s == Segments(full_name)
    IN  Join([ i \in DOMAIN s |-> PascalForm(s[i]) ])

\* C13: include_package_in_names decides whether the package segments enter a
\* composed identifier: a type without override, registered for the first
\* time while neither form of its identifier is reserved or assigned, gets the
\* prefix followed by the PascalCase forms of all segments of its full name
\* when the flag is true (baz.Widget gets FBazWidget) and of the segments
\* after the package when it is false (FWidget).
C13_PackageFlagDecides ==
    [][ subject = "TypeMapper" =>
          \A i \in DOMAIN log' :
             LET n == log'[i].full_name
                 with_package == log'[i].prefix \o PascalFullPath(n)
                 without_package == log'[i].prefix \o PascalPath(n, log'[i].package)
                 taken == AssignedBefore(i) \cup object.config.reserved_identifiers
             IN  ( /\ ~ HasOverride(n)
                   /\ n \notin KnownBefore(i)
                   /\ with_package \notin taken
                   /\ without_package \notin taken ) =>
                    log'[i].ue_name = IF object.config.include_package_in_names
                                      THEN with_package
                                      ELSE without_package
      ]_vars

\* the full names of the types a file declares
NamesDeclaredBy(proto_file) ==
    { t.full_name : t \in NamedIn(proto_file.messages) }
       \cup { e.full_name : e \in Range(proto_file.enums) }

\* C14 as stated: the names in the symbol table and the index of declaring
\* files are the same after any map_file call as before it.
C14_MapFileChangesNothing ==
    [][ (subject = "TypeMapper" /\ call'.op = "map_file") =>
           /\ DOMAIN object'.symbol_table = DOMAIN object.symbol_table
           /\ object'.type_file_index = object.type_file_index
      ]_vars

\* C14: map_file(F) registers the types of F as register_file(F) does and
\* registers nothing else: the symbol table and the index of declaring files
\* it leaves are those register_file(F) leaves; the names it adds are names of
\* types F declares, the index entries it writes are those of types F
\* declares, and the identifiers of the names known before are kept; when
\* every type of F had an entry before, no name is added.
C14_MapFileRegistersOwnTypesOnly ==
    [][ (subject = "TypeMapper" /\ call'.op = "map_file") =>
           LET proto_file == Files[call'.files[1]]
               registered == register_file(Begin, proto_file).self
           IN  /\ object'.symbol_table = registered.symbol_table
               /\ object'.type_file_index = registered.type_file_index
               /\ DOMAIN object.symbol_table \subseteq DOMAIN object'.symbol_table
               /\ (DOMAIN object'.symbol_table \ DOMAIN object.symbol_table)
                     \subseteq NamesDeclaredBy(proto_file)
               /\ \A n \in DOMAIN object.symbol_table :
                     object'.symbol_table[n].ue_name = object.symbol_table[n].ue_name
               /\ \A id \in DOMAIN object'.type_file_index :
                     \/ id \in DeclaredBy(proto_file)
                           /\ object'.type_file_index[id] = proto_file.name
                     \/ id \in DOMAIN object.type_file_index
                           /\ object'.type_file_index[id] = object.type_file_index[id]
               /\ NamesDeclaredBy(proto_file) \subseteq DOMAIN object.symbol_table =>
                     DOMAIN object'.symbol_table = DOMAIN object.symbol_table
      ]_vars

\* the first call on a mapper was map_file of foo/common.proto: it returned,
\* and the symbol table holds the three names of that file and no other
C14_Witness ==
    /\ MapFileReturned
    /\ result.val.name = FooFile.name
    /\ history.begun = { FooFile.name }
    /\ DOMAIN object.symbol_table = NamesDeclaredBy(FooFile)
    /\ DOMAIN object.type_file_index = DeclaredBy(FooFile)

\* the id, the full name and the kind of every type a list of messages declares
RECURSIVE TypeObjectsIn(_)
TypeObjectsIn(messages) ==
    IF messages = << >> THEN {}
    ELSE { [ id |-> Head(messages).id, full_name |-> Head(messages).full_name,
             kind |-> "message" ] }
            \cup { [ id |-> e.id, full_name |-> e.full_name, kind |-> "enum" ] :
                      e \in Range(Head(messages).nested_enums) }
            \cup TypeObjectsIn(Head(messages).nested_messages)
            \cup TypeObjectsIn(Tail(messages))

\* the type objects a file lists
TypeObjectsOf(proto_file) ==
    TypeObjectsIn(proto_file.messages)
       \cup { [ id |-> e.id, full_name |-> e.full_name, kind |-> "enum" ] :
                 e \in Range(proto_file.enums) }

\* the type objects of all the files
AllTypeObjects == UNION { TypeObjectsOf(b) : b \in Range(Files) }

\* C15: a call that registers a type object again, through the same file or
\* through another one, leaves the declaring file recorded for that object
\* and the identifier its full name has in the symbol table as they were
\* after its first registration.
C15_ReregistrationChangesNothing ==
    [][ subject = "TypeMapper" =>
          \A t \in AllTypeObjects :
             t.id \in DOMAIN object.type_file_index =>
                /\ object'.type_file_index[t.id] = object.type_file_index[t.id]
                /\ object'.symbol_table[t.full_name].ue_name
                      = object.symbol_table[t.full_name].ue_name
      ]_vars

\* the files that list a type of the given full name
FilesListing(full_name) ==
    { b \in Range(Files) : \E t \in TypeObjectsOf(b) : t.full_name = full_name }

\* the identifiers composed for a full name by the files that list it, as
\* pairs of role prefix and suffix
ComposedFor(full_name) ==
    UNION { { [ prefix |-> IF t.kind = "enum" THEN <<"E">> ELSE <<"F">>,
                suffix |-> PascalPath(full_name, b.package) ] :
              t \in { u \in TypeObjectsOf(b) : u.full_name = full_name } } :
            b \in FilesListing(full_name) }

\* the full names of all the files
AllNames == { t.full_name : t \in AllTypeObjects }

\* the identifiers a full name may be given: its stripped override, or its
\* composed identifiers followed by their collision forms
MayBeGiven(full_name, rename_overrides) ==
    IF full_name \in DOMAIN rename_overrides THEN { Strip(rename_overrides[full_name]) }
    ELSE { CandidateAt(c.prefix, c.suffix, k) :
              c \in ComposedFor(full_name), k \in 0 .. Cardinality(AllNames) }

\* a full name nothing contends with: it has no override, all the files that
\* list it compose one identifier for it, that identifier is not reserved and
\* no other name may be given it
Uncontended(full_name, config) ==
    /\ full_name \notin DOMAIN config.rename_overrides
    /\ Cardinality(ComposedFor(full_name)) = 1
    /\ \A c \in ComposedFor(full_name) :
          /\ c.prefix \o c.suffix \notin config.reserved_identifiers
          /\ \A other \in AllNames \ { full_name } :
                c.prefix \o c.suffix \notin MayBeGiven(other, config.rename_overrides)

\* the names nothing contends with, for each configuration
UncontendedNames ==
    [ config \in Configs |-> { n \in AllNames : Uncontended(n, config) } ]

\* the identifier composed for each of them
ComposedIdentifier ==
    [ n \in UNION { UncontendedNames[config] : config \in Configs } |->
        LET c == CHOOSE c \in ComposedFor(n) : TRUE IN c.prefix \o c.suffix ]

\* the files whose registration was begun, in the order of Files
RECURSIVE InFilesOrder(_, _)
InFilesOrder(names, i) ==
    IF i > Len(Files) THEN << >>
    ELSE (IF Files[i].name \in names THEN << Files[i] >> ELSE << >>)
            \o InFilesOrder(names, i + 1)

\* the mapper that register_files leaves when a new mapper of the same
\* configuration is handed those files in the order of Files
RegisteredInFilesOrder ==
    register_files([ Begin EXCEPT !.self = new_TypeMapper(object.config),
                                  !.begun = {}, !.completed = {} ],
                   InFilesOrder(history.begun, 1)).self

\* C16 as stated: whatever the order in which the files were registered, the
\* symbol table holds the names and identifiers it holds when the same files
\* are registered in the order of Files.
C16_AnyOrderSameTable ==
    (subject = "TypeMapper" /\ history.begun = history.completed) =>
       /\ DOMAIN object.symbol_table = DOMAIN RegisteredInFilesOrder.symbol_table
       /\ \A n \in DOMAIN object.symbol_table :
             object.symbol_table[n].ue_name = RegisteredInFilesOrder.symbol_table[n].ue_name

\* C16: in whatever order files are registered, once every registration that
\* was begun has returned the symbol table holds exactly the names of the
\* types of those files, and every name nothing contends with has the one
\* identifier composed for it; names that contend for an identifier share it
\* out in the order of registration.
C16_UncontendedNamesAnyOrder ==
    subject = "TypeMapper" =>
       /\ history.begun = history.completed =>
             DOMAIN object.symbol_table
                = UNION { NamesDeclaredBy(b) : b \in { c \in Range(Files) : c.name \in history.begun } }
       /\ \A n \in DOMAIN object.symbol_table \cap UncontendedNames[object.config] :
             object.symbol_table[n].ue_name = ComposedIdentifier[n]

\* bar/common.proto was registered before foo/common.proto (bar.Thing holds
\* FThing, foo.Thing FProtoThing) and foo.Color, foo.Thing.Inner and
\* baz.Widget, which nothing contends with, hold their composed identifiers
C16_Witness ==
    /\ subject = "TypeMapper"
    /\ object.config.rename_overrides = NoOverrides
    /\ history.completed = { FooFile.name, BarFile.name, BazFile.name }
    /\ object.symbol_table[<<"b","a","r",".","T","h","i","n","g">>].ue_name = <<"F","T","h","i","n","g">>
    /\ object.symbol_table[<<"f","o","o",".","T","h","i","n","g">>].ue_name = <<"F","P","r","o","t","o","T","h","i","n","g">>
    /\ <<"f","o","o",".","C","o","l","o","r">> \in UncontendedNames[object.config]
    /\ <<"f","o","o",".","T","h","i","n","g",".","I","n","n","e","r">> \in UncontendedNames[object.config]
    /\ <<"b","a","z",".","W","i","d","g","e","t">> \in UncontendedNames[object.config]
    /\ <<"f","o","o",".","T","h","i","n","g">> \notin UncontendedNames[object.config]
    /\ object.symbol_table[<<"f","o","o",".","C","o","l","o","r">>].ue_name = <<"E","C","o","l","o","r">>
    /\ object.symbol_table[<<"f","o","o",".","T","h","i","n","g",".","I","n","n","e","r">>].ue_name = <<"F","T","h","i","n","g","I","n","n","e","r">>
    /\ object.symbol_table[<<"b","a","z",".","W","i","d","g","e","t">>].ue_name = <<"F","W","i","d","g","e","t">>

\* the full names of the types the fields of a file refer to
NamesReferredToBy(proto_file) ==
    { t.full_name : t \in { u \in AllTypeObjects : u.id \in ReferredTo(proto_file.messages) } }

\* the class of the error _lookup_symbol raises for a type that has no entry
LookupErrorClass == lookup_symbol(EmptyDict, TypeRef(FooColor), FooColor.full_name).err

\* C17: the class of the lookup error is the class of no resolution error, so
\* that it tells the caller that a type was never registered: a map_file call
\* raises an error of that class only when a type the fields of the file
\* refer to has no entry in the symbol table.
C17_LookupErrorClassIsDistinct ==
    [][ (subject = "TypeMapper" /\ call'.op = "map_file"
            /\ result'.err = LookupErrorClass) =>
           \E n \in NamesReferredToBy(Files[call'.files[1]]) :
              n \notin DOMAIN object'.symbol_table
      ]_vars

\* a from_parameter_string call was made
ConfigParsed == subject = "GeneratorConfig" /\ call.op = "from_parameter_string"

\* the entries of a list that lie in the value the parameter string gives the
\* key: the value ends at the first comma or semicolon, its entries are
\* separated by '|'
EntriesInValue(entries, list_separator) ==
    IF list_separator = "|" \/ entries = << >> THEN entries ELSE << entries[1] >>

\* the entries a file of the given lines holds: the stripped lines that are
\* not blank and do not start with '#'
EntriesOfLines(lines) ==
    { Strip(l) : l \in { m \in Range(lines) : Strip(m) # << >> /\ Strip(m)[1] # "#" } }

\* the entries of the reserved file, when the parameter names it
ReservedFileEntries ==
    IF call.intent.reserved_file THEN EntriesOfLines(call.text.reserved) ELSE {}

\* C18 as stated: the reserved identifiers are the union of the built-in
\* default list, the replacement list, the additive list and the entries of
\* the reserved file, duplicates collapsed (the lists written with '|').
C18_ReservedIsUnionWithDefaults ==
    (ConfigParsed /\ result.err = "none" /\ call.intent.list_separator = "|") =>
       /\ Range(result.val.reserved_identifiers)
             = Range(DEFAULT_RESERVED_IDENTIFIERS_TUPLE) \cup Range(call.intent.reserved)
                  \cup Range(call.intent.extra_reserved) \cup ReservedFileEntries
       /\ \A i, j \in DOMAIN result.val.reserved_identifiers :
             i # j => result.val.reserved_identifiers[i] # result.val.reserved_identifiers[j]

\* C18: the reserved identifiers are the entries of the reserved_identifiers
\* value when one is given and the built-in default list otherwise, together
\* with the entries of the extra_reserved_identifiers value and the entries of
\* the reserved file (blank lines and lines starting with '#' ignored), each
\* identifier once.
C18_ReservedReplacesDefaults ==
    (ConfigParsed /\ result.err = "none") =>
       LET replacement == EntriesInValue(call.intent.reserved, call.intent.list_separator)
           additive == EntriesInValue(call.intent.extra_reserved, call.intent.list_separator)
       IN  /\ Range(result.val.reserved_identifiers)
                 = (IF replacement = << >> THEN Range(DEFAULT_RESERVED_IDENTIFIERS_TUPLE)
                    ELSE Range(replacement))
                      \cup Range(additive) \cup ReservedFileEntries
           /\ \A i, j \in DOMAIN result.val.reserved_identifiers :
                 i # j => result.val.reserved_identifiers[i] # result.val.reserved_identifiers[j]

\* reserved_identifiers=FOne|FTwo, extra_reserved_identifiers=FThird|FOne and
\* a reserved file with a comment, a blank line, a padded line and a repeated
\* line gave FOne, FTwo, FThird, FExtra, FAnother
C18_Witness ==
    /\ ConfigParsed
    /\ result.err = "none"
    /\ call.intent.list_separator = "|"
    /\ call.intent.reserved = << <<"F","O","n","e">>, <<"F","T","w","o">> >>
    /\ call.intent.extra_reserved = << <<"F","T","h","i","r","d">>, <<"F","O","n","e">> >>
    /\ call.intent.reserved_file
    /\ <<"#"," ","c","o","m","m","e","n","t">> \in Range(call.text.reserved)
    /\ result.val.reserved_identifiers
          = << <<"F","O","n","e">>, <<"F","T","w","o">>, <<"F","T","h","i","r","d">>, <<"F","E","x","t","r","a">>, <<"F","A","n","o","t","h","e","r">> >>

\* the name and the identifier of a rename entry, trimmed
RenameName(entry) == Strip(SubSeq(entry, 1, FirstIndexOf(entry, ":") - 1))

RenameIdentifier(entry) == Strip(SubSeq(entry, FirstIndexOf(entry, ":") + 1, Len(entry)))

\* an entry with a ':' and with a name and an identifier left after trimming
WellFormedRename(entry) ==
    /\ FirstIndexOf(entry, ":") > 0
    /\ RenameName(entry) # << >>
    /\ RenameIdentifier(entry) # << >>

\* the rename entries a call was meant to configure: those of the parameter,
\* then those of the rename file when the parameter names it
MeantRenames ==
    call.intent.renames
       \o (IF call.intent.rename_file
           THEN LET lines == call.text.renames
                    kept == { i \in DOMAIN lines :
                                 Strip(lines[i]) # << >> /\ Strip(lines[i])[1] # "#" }
                IN  [ k \in 1 .. Cardinality(kept) |->
                        Strip(lines[CHOOSE i \in kept : Cardinality({ j \in kept : j < i }) = k - 1]) ]
           ELSE << >>)

\* C19: whether the entries of the rename_overrides value are joined by
\* commas, by semicolons or by pipes, the override table holds one entry per
\* 'full.name:Identifier' pair of the value and of the rename file (the last
\* pair of a name standing), and an entry without ':' or with an empty name
\* or identifier makes the parse raise ValueError.
C19_OneOverridePerPair ==
    ConfigParsed =>
       IF \A i \in DOMAIN MeantRenames : WellFormedRename(MeantRenames[i])
       THEN /\ result.err = "none"
            /\ DOMAIN result.val.rename_overrides
                  = { RenameName(MeantRenames[i]) : i \in DOMAIN MeantRenames }
            /\ \A i \in DOMAIN MeantRenames :
                  (\A j \in DOMAIN MeantRenames :
                      j > i => RenameName(MeantRenames[j]) # RenameName(MeantRenames[i])) =>
                     result.val.rename_overrides[RenameName(MeantRenames[i])]
                        = RenameIdentifier(MeantRenames[i])
       ELSE result.err = "ValueError"

\* C20: the retry loop ends: whatever identifiers are reserved or assigned
\* when a unique identifier is composed, the loop has made at most one more
\* attempt than there are such identifiers, and it returns an identifier
\* that was neither reserved nor assigned; for TypeMapper and NameResolver.
C20_RetryLoopTerminates ==
    /\ [](call.pc = "loop" => call.attempt <= Cardinality(call.taken) + 1)
    /\ <>(call.pc = "done" /\ result.err = "none" /\ result.val \notin call.taken)

\* the bare form, the infix form and the forms numbered 1 and 2 were taken:
\* the loop returned FProtoThing3 at its fourth attempt
C20_Witness ==
    /\ call.op = "make_unique"
    /\ call.pc = "done"
    /\ call.attempt = 4
    /\ { <<"F","T","h","i","n","g">>, <<"F","P","r","o","t","o","T","h","i","n","g">>, <<"F","P","r","o","t","o","T","h","i","n","g","1">>, <<"F","P","r","o","t","o","T","h","i","n","g","2">> } \subseteq call.taken
    /\ result.val = <<"F","P","r","o","t","o","T","h","i","n","g","3">>

\* a list of messages with the fields and oneofs taken out of every message
RECURSIVE WithoutFields(_)
WithoutFields(messages) ==
    [ i \in DOMAIN messages |->
        [ messages[i] EXCEPT !.fields = << >>, !.oneofs = << >>,
                             !.nested_messages = WithoutFields(@) ] ]

\* the steps an item of work stands for: itself and, for a type that is to
\* be registered or a message that is to be converted, what the type declares
RECURSIVE StepsOf(_)
RECURSIVE StepsIn(_)
StepsOf(item) ==
    IF item.k = "register" /\ item.x.kind = "message"
    THEN 1 + StepsIn(WorkFor("register", item.x.nested_enums))
           + StepsIn(WorkFor("register", item.x.nested_messages))
    ELSE IF item.k = "convert_message"
    THEN 1 + Len(item.x.fields) + Len(item.x.nested_enums)
           + StepsIn(WorkFor("convert_message", item.x.nested_messages))
    ELSE 1

StepsIn(todo) == IF todo = << >> THEN 0 ELSE StepsOf(Head(todo)) + StepsIn(Tail(todo))

\* C21: register_file and map_file terminate on schema graphs with reference
\* cycles. Followed one type or field per step, a walk over a file whose
\* messages refer to themselves or to each other, within the file or across
\* two files, always has a step to take while work is left, and every step
\* lowers the number of steps left, counted from what the file declares alone
\* (a field adds one step whatever type it refers to); the walk calls
\* _resolve_type_name at most once for each type the file declares. At the
\* end the mapper and the exception raised are those of the method, the symbol
\* table is the one the same file without any field would have given (an
\* identifier depends on the type's own full name, not on its fields), and the
\* fields converted are those of the file returned.
C21_WalksTerminateOnCycles ==
    /\ [][StepsIn(call'.todo) < StepsIn(call.todo)]_vars
    /\ [](call.todo # << >> =>
            Head(call.todo).k \in { "enter_registration", "register", "leave_registration",
                                    "enter_conversion", "convert_message", "convert_field",
                                    "convert_enum", "leave_conversion" })
    /\ [](Len(log) <= Cardinality(DeclaredBy(WalkFiles[call.file])))
    /\ [](call.todo = << >> =>
            LET proto_file == WalkFiles[call.file]
                method == IF call.op = "map_file" THEN map_file(call.entry, proto_file)
                          ELSE register_file(call.entry, proto_file)
                bare == register_file(call.entry,
                                      [ proto_file EXCEPT !.messages = WithoutFields(@) ])
            IN  /\ object = method.self
                /\ result.err = method.err
                /\ object.symbol_table = bare.self.symbol_table
                /\ (call.op = "map_file" /\ result.err = "none") =>
                      { c.ue : c \in Range(call.converted) } = FieldsOf(method.val.messages))

\* map_file(loop.proto) has come to its end without raising: the fields next
\* and children of Node have Node's own identifier as their base type, and
\* the field ping of Pong, nested in Ping, has the identifier of Ping
C21_Witness ==
    /\ call.op = "map_file"
    /\ call.todo = << >>
    /\ result.err = "none"
    /\ WalkFiles[call.file].name = <<"l","o","o","p",".","p","r","o","t","o">>
    /\ \E a, b, c \in { x.ue : x \in Range(call.converted) } :
          /\ a.name = <<"n","e","x","t">> /\ a.base_type = <<"F","N","o","d","e">> /\ a.is_optional
          /\ b.name = <<"c","h","i","l","d","r","e","n">> /\ b.ue_type = <<"T","A","r","r","a","y","<","F","N","o","d","e",">">>
          /\ c.name = <<"p","i","n","g">> /\ c.base_type = <<"F","P","i","n","g">>
    /\ object.symbol_table[<<"l","o","o","p",".","N","o","d","e">>].ue_name = <<"F","N","o","d","e">>

\* the fields the walk in progress has converted: the Field and its UEField
Converted == Range(call.converted)

\* C22: of is_map, is_repeated and is_optional at most one is true of a
\* mapped field, and the field has an optional wrapper exactly when
\* is_optional is true. A map field is of type TMap<Key, Value> with TMap as
\* its container and is neither optional nor repeated, whatever its
\* cardinality and whether or not it is a oneof member; a repeated field
\* that is no map is of type TArray<Element> with TArray as its container,
\* is not optional and has no wrapper, also when it is a oneof member.
C22_OneShapePerField ==
    \A c \in Converted :
       /\ Cardinality({ flag \in { "map", "repeated", "optional" } :
                          \/ flag = "map" /\ c.ue.is_map
                          \/ flag = "repeated" /\ c.ue.is_repeated
                          \/ flag = "optional" /\ c.ue.is_optional }) <= 1
       /\ c.ue.is_optional <=> c.ue.optional_wrapper # 0
       /\ c.src.kind = "map" =>
             /\ c.ue.is_map /\ ~ c.ue.is_optional /\ ~ c.ue.is_repeated
             /\ c.ue.ue_type = <<"T","M","a","p","<">> \o c.ue.map_key_type \o <<","," ">> \o c.ue.map_value_type \o <<">">>
             /\ c.ue.container = <<"T","M","a","p">>
       /\ (c.src.kind # "map" /\ c.src.cardinality = "repeated") =>
             /\ c.ue.is_repeated /\ ~ c.ue.is_optional /\ ~ c.ue.is_map
             /\ c.ue.optional_wrapper = 0
             /\ c.ue.ue_type = <<"T","A","r","r","a","y","<">> \o c.ue.base_type \o <<">">>
             /\ c.ue.container = <<"T","A","r","r","a","y">>

\* the walk over odd.proto has converted by_name, a map field of optional
\* cardinality that is a oneof member, index, a map field of required
\* cardinality, and tags, a repeated field that is a oneof member
C22_Witness ==
    \E a, b, c \in Converted :
       /\ a.src.kind = "map" /\ a.src.oneof # None /\ a.src.cardinality = "optional"
       /\ a.ue.ue_type = <<"T","M","a","p","<","F","S","t","r","i","n","g",","," ","u","i","n","t","3","2",">">>
       /\ b.src.kind = "map" /\ b.src.cardinality = "required"
       /\ b.ue.ue_type = <<"T","M","a","p","<","i","n","t","3","2",","," ","F","P","l","a","i","n",">">>
       /\ c.src.kind = "scalar" /\ c.src.cardinality = "repeated" /\ c.src.oneof # None
       /\ c.ue.ue_type = <<"T","A","r","r","a","y","<","F","S","t","r","i","n","g",">">>

\* the optional wrappers in the cache of the map_file call in progress
CachedWrappers ==
    { dicts[object.current_optional_wrappers][i].value :
        i \in DOMAIN dicts[object.current_optional_wrappers] }

\* C23: a field that is neither repeated nor a map is wrapped (it has an
\* optional wrapper, whose identifier is both its ue_type and its container)
\* exactly when it is a oneof member or its cardinality is optional. A field
\* with neither has its base type as ue_type, no container and no wrapper,
\* and the wrappers in the cache of the call, which become the wrapper list
\* of the file, are those of the wrapped fields and no others.
C23_WrappedIffOptionalOrOneof ==
    /\ \A c \in Converted :
          (c.src.kind # "map" /\ c.src.cardinality # "repeated") =>
             IF c.src.oneof # None \/ c.src.cardinality = "optional"
             THEN /\ c.ue.is_optional
                  /\ c.ue.optional_wrapper \in DOMAIN wrappers
                  /\ c.ue.ue_type = wrappers[c.ue.optional_wrapper].ue_name
                  /\ c.ue.container = wrappers[c.ue.optional_wrapper].ue_name
                  /\ c.ue.base_type = wrappers[c.ue.optional_wrapper].base_type
                  /\ c.ue.ue_type # c.ue.base_type
             ELSE /\ ~ c.ue.is_optional
                  /\ c.ue.optional_wrapper = 0
                  /\ c.ue.ue_type = c.ue.base_type
                  /\ c.ue.container = None
    /\ (subject = "TypeMapper" /\ object.current_proto_file_name # None) =>
          CachedWrappers =
             { c.ue.optional_wrapper :
                 c \in { d \in Converted :
                           /\ d.src.kind # "map" /\ d.src.cardinality # "repeated"
                           /\ d.src.oneof # None \/ d.src.cardinality = "optional" } }

\* the walk over odd.proto has converted id and plain, required fields that
\* are mapped to their base types, and title and alias, an optional field and
\* a oneof member of required cardinality, which share the wrapper of FString
C23_Witness ==
    \E a, b, c, d \in Converted :
       /\ a.src.name = <<"i","d">> /\ a.src.cardinality = "required" /\ a.ue.container = None
       /\ a.ue.ue_type \in { <<"u","i","n","t","6","4">>, <<"i","n","t","6","4">> }
       /\ b.src.name = <<"p","l","a","i","n">> /\ b.ue.ue_type = <<"F","P","l","a","i","n">> /\ b.ue.optional_wrapper = 0
       /\ c.src.name = <<"t","i","t","l","e">> /\ c.src.oneof = None
       /\ c.ue.ue_type = <<"F","P","r","o","t","o","O","p","t","i","o","n","a","l","O","d","d","F","S","t","r","i","n","g">>
       /\ d.src.name = <<"a","l","i","a","s">> /\ d.src.cardinality = "required" /\ d.src.oneof # None
       /\ d.ue.optional_wrapper = c.ue.optional_wrapper
       /\ d.ue.container = <<"F","P","r","o","t","o","O","p","t","i","o","n","a","l","O","d","d","F","S","t","r","i","n","g">>
       /\ Cardinality(CachedWrappers) = 1

\* the fields converted so far for which the wrapper w was requested
RequestsFor(w) == { c \in Converted : c.ue.optional_wrapper = w }

\* C24: within one map_file call the blueprint exposure of a wrapper only
\* goes down: a wrapper whose blueprint_type or value_blueprint_exposed is
\* false keeps it false at every later step, and at every point of the call,
\* its end included, the flags of a wrapper built during the call are true
\* exactly when every request made so far for its base type had its
\* exposure flag true.
C24_ExposureOnlyGoesDown ==
    /\ [][\A w \in DOMAIN wrappers :
             /\ w \in DOMAIN wrappers'
             /\ wrappers'[w].base_type = wrappers[w].base_type
             /\ ~ wrappers[w].blueprint_type => ~ wrappers'[w].blueprint_type
             /\ ~ wrappers[w].value_blueprint_exposed => ~ wrappers'[w].value_blueprint_exposed]_vars
    /\ [](\A w \in DOMAIN wrappers :
             wrappers[w].created =>
                /\ RequestsFor(w) # {}
                /\ RequestsFor(w) =
                      { c \in Converted : c.ue.is_optional /\ c.ue.base_type = wrappers[w].base_type }
                /\ wrappers[w].blueprint_type <=>
                      \A c \in RequestsFor(w) : base_type_blueprint_enabled(c.src)
                /\ wrappers[w].value_blueprint_exposed = wrappers[w].blueprint_type)

\* map_file of odd.proto has ended: the wrapper of FOpaque was built hidden
\* for secret and asked for again, exposed, for secret_by_name; the wrapper
\* of EHidden was built exposed for mood_by_name and hidden by mood; the
\* wrapper of FString was only ever asked for exposed
C24_Witness ==
    /\ call.todo = << >> /\ call.op = "map_file" /\ result.err = "none"
    /\ \E i, j, k, l \in DOMAIN call.converted :
          /\ i < j /\ k < l
          /\ call.converted[i].src.name = <<"s","e","c","r","e","t">>
          /\ ~ base_type_blueprint_enabled(call.converted[i].src)
          /\ call.converted[j].src.name = <<"s","e","c","r","e","t","_","b","y","_","n","a","m","e">>
          /\ base_type_blueprint_enabled(call.converted[j].src)
          /\ call.converted[j].ue.optional_wrapper = call.converted[i].ue.optional_wrapper
          /\ ~ wrappers[call.converted[j].ue.optional_wrapper].blueprint_type
          /\ call.converted[k].src.name = <<"m","o","o","d","_","b","y","_","n","a","m","e">>
          /\ base_type_blueprint_enabled(call.converted[k].src)
          /\ call.converted[l].src.name = <<"m","o","o","d">>
          /\ ~ base_type_blueprint_enabled(call.converted[l].src)
          /\ call.converted[l].ue.optional_wrapper = call.converted[k].ue.optional_wrapper
          /\ ~ wrappers[call.converted[l].ue.optional_wrapper].value_blueprint_exposed
    /\ \E w \in DOMAIN wrappers :
          /\ wrappers[w].created /\ wrappers[w].blueprint_type
          /\ Cardinality(RequestsFor(w)) = 2

\* the full names of the types a list of messages declares, nested ones included
RECURSIVE NamesDeclaredIn(_)
NamesDeclaredIn(messages) ==
    IF messages = << >> THEN {}
    ELSE { Head(messages).full_name } \cup { e.full_name : e \in Range(Head(messages).nested_enums) }
            \cup NamesDeclaredIn(Head(messages).nested_messages)
            \cup NamesDeclaredIn(Tail(messages))

\* the full names of the types the file of the walk declares
NamesDeclared ==
    NamesDeclaredIn(WalkFiles[call.file].messages)
        \cup { e.full_name : e \in Range(WalkFiles[call.file].enums) }

\* the registration of the walk has raised: its last _resolve_type_name failed
RegistrationRaised == result.err # "none" /\ log # << >> /\ log[Len(log)].err # "none"

\* C25: a failed registration is not rolled back. From the step at which
\* register_file, or the registration step of map_file, raises while
\* registering one type, through the finally clause to the end of the call:
\* every type visited before it has the symbol-table entry it was given and
\* that identifier is not available; the failing type and the types of the
\* file not yet visited have no entry; and nothing else in the table has
\* changed since the call began.
C25_FailedRegistrationNotRolledBack ==
    RegistrationRaised =>
       LET visited == { log[i].full_name : i \in 1 .. (Len(log) - 1) }
           table == object.symbol_table
           before == call.entry.self.symbol_table
       IN  /\ \A i \in 1 .. (Len(log) - 1) :
                 /\ log[i].err = "none"
                 /\ log[i].full_name \in DOMAIN table
                 /\ table[log[i].full_name].ue_name = log[i].ue_name
                 /\ ~ is_name_available(log[i].ue_name, table, object.reserved_identifiers)
           /\ \A n \in NamesDeclared \ visited : n \notin DOMAIN table
           /\ log[Len(log)].full_name \in NamesDeclared \ visited
           /\ DOMAIN table = DOMAIN before \cup visited
           /\ \A n \in DOMAIN before \ visited : table[n] = before[n]
           /\ { k \in DOMAIN call.todo : call.todo[k].k \in { "register", "enter_conversion" } } = {}

\* the registration of clash.proto has ended with the ValueError raised for
\* baz.Widget, whose override FThing was given to baz.Thing: baz.Level,
\* baz.Thing and its two nested types have their entries, baz.Widget,
\* baz.Widget.Deep and baz.Later have none
C25_Witness ==
    /\ RegistrationRaised /\ call.todo = << >> /\ result.err = "ValueError"
    /\ object.package = call.entry.self.package
    /\ log[Len(log)].full_name = <<"b","a","z",".","W","i","d","g","e","t">>
    /\ { log[i].full_name : i \in 1 .. (Len(log) - 1) }
          = { <<"b","a","z",".","L","e","v","e","l">>, <<"b","a","z",".","T","h","i","n","g">>, <<"b","a","z",".","T","h","i","n","g",".","K","i","n","d">>, <<"b","a","z",".","T","h","i","n","g",".","I","n","n","e","r">> }
    /\ object.symbol_table[<<"b","a","z",".","T","h","i","n","g">>].ue_name = <<"F","T","h","i","n","g">>
    /\ { <<"b","a","z",".","W","i","d","g","e","t">>, <<"b","a","z",".","W","i","d","g","e","t",".","D","e","e","p">>, <<"b","a","z",".","L","a","t","e","r">> } \cap DOMAIN object.symbol_table = {}
    /\ DOMAIN call.entry.self.symbol_table # {}

\* the transient attributes of a mapper, the wrapper cache with its content
TransientState(self, heap) ==
    [ package |-> self.package,
      cache |-> self.current_optional_wrappers,
      cached |-> heap[self.current_optional_wrappers],
      file_suffix |-> self.current_file_suffix,
      proto_file_name |-> self.current_proto_file_name ]

\* C26: the transient state of a mapper is scoped to the call. The step at
\* which map_file enters its scope leaves it with an empty optional-wrapper
\* cache, and when map_file or register_file has returned or raised, the
\* current package, the wrapper cache (the dictionary and what it holds),
\* the file tag and the current file name are what they were when the call
\* began.
C26_TransientStateScopedToCall ==
    /\ [][(call.todo # << >> /\ Head(call.todo).k = "enter_conversion") =>
             /\ dicts'[object'.current_optional_wrappers] = << >>
             /\ object'.current_proto_file_name = WalkFiles[call.file].name
             /\ object'.package = WalkFiles[call.file].package]_vars
    /\ [](call.todo = << >> =>
             TransientState(object, dicts) = TransientState(call.entry.self, call.entry.dicts))

\* map_file of a file of BrokenFiles has raised in the conversion of its
\* field, inside both scopes, on a mapper that had mapped odd.proto before,
\* and the walk has ended
C26_Witness ==
    /\ call.todo = << >> /\ call.op = "map_file" /\ history.mapped
    /\ result.err = "ValueError" /\ ~ RegistrationRaised
    /\ WalkFiles[call.file].package = <<"b","r","o","k","e","n">>
    /\ WalkFiles[call.file].name \in history.completed
    /\ object.package = None /\ object.current_proto_file_name = None

\* a reference to a message or an enum without the type object
Unresolved(kind, resolved_type) == kind \in { "message", "enum" } /\ resolved_type.id = 0

\* the field, or the key or the value of the map field, refers to a message
\* or an enum without the type object
MissesReference(field) ==
    \/ Unresolved(field.kind, field.resolved_type)
    \/ /\ field.kind = "map" /\ field.map_entry.present
       /\ \/ Unresolved(field.map_entry.key_kind, field.map_entry.key_resolved_type)
          \/ Unresolved(field.map_entry.value_kind, field.map_entry.value_resolved_type)

\* the fields whose missing reference has no type name to stand in for it:
\* the field itself, the key of a map field, or the value of a map field
\* whose key the mapper has a type for
MissesReferenceAndName(field) ==
    \/ Unresolved(field.kind, field.resolved_type) /\ ~ Truthy(field.type_name)
    \/ /\ field.kind = "map" /\ field.map_entry.present
       /\ \/ /\ Unresolved(field.map_entry.key_kind, field.map_entry.key_resolved_type)
             /\ ~ Truthy(field.map_entry.key_type_name)
          \/ /\ map_entry_part_type(object, field.map_entry.key_kind, field.map_entry.key_scalar,
                                     field.map_entry.key_resolved_type,
                                     field.map_entry.key_type_name).err = "none"
             /\ Unresolved(field.map_entry.value_kind, field.map_entry.value_resolved_type)
             /\ ~ Truthy(field.map_entry.value_type_name)

\* the step converts a field
ConvertsField == call.todo # << >> /\ Head(call.todo).k = "convert_field" /\ result.err = "none"

RolePrefix(kind) == IF kind = "enum" THEN enum_prefix ELSE message_prefix

\* C28: no registration assigns an empty identifier or one that is the bare
\* role prefix: every identifier in the symbol table is the prefix of its
\* kind followed by a non-empty part, whatever the full name registered (one
\* equal to the package, an empty one, one without a segment relative to the
\* package).
C28_NoPrefixOnlyIdentifier ==
    \A n \in DOMAIN object.symbol_table :
       LET symbol == object.symbol_table[n]
       IN  n \notin DOMAIN object.rename_overrides =>
              /\ Len(symbol.ue_name) > Len(RolePrefix(symbol.kind))
              /\ SubSeq(symbol.ue_name, 1, Len(RolePrefix(symbol.kind))) = RolePrefix(symbol.kind)

\* the messages of a list, nested ones included
RECURSIVE MessagesIn(_)
MessagesIn(messages) ==
    IF messages = << >> THEN {}
    ELSE { Head(messages) } \cup MessagesIn(Head(messages).nested_messages)
            \cup MessagesIn(Tail(messages))

\* the oneof wrappers _convert_message builds for the file of the walk: the
\* message, the position of the oneof in it and the identifier
OneofWrappers ==
    UNION { { [ message |-> m.full_name, at |-> i,
                ue_name |-> convert_oneof(m.oneofs[i], object.symbol_table[m.full_name].ue_name,
                                          m).ue_name ] : i \in DOMAIN m.oneofs } :
            m \in MessagesIn(WalkFiles[call.file].messages) }

\* the optional wrappers built by the map_file call of the walk
BuiltWrappers == { w \in DOMAIN wrappers : wrappers[w].created }

\* C29: when map_file has returned, the identifiers generated for the file
\* are unique: the oneof wrappers and the optional wrappers have pairwise
\* distinct identifiers, which differ from every message and enum identifier
\* of the symbol table and are not reserved; two distinct base types never
\* have the same optional-wrapper identifier.
C29_GeneratedIdentifiersUnique ==
    (call.op = "map_file" /\ call.todo = << >> /\ result.err = "none") =>
       LET generated == { o.ue_name : o \in OneofWrappers }
                           \cup { wrappers[w].ue_name : w \in BuiltWrappers }
       IN  /\ \A v, w \in BuiltWrappers :
                 wrappers[v].base_type # wrappers[w].base_type =>
                    wrappers[v].ue_name # wrappers[w].ue_name
           /\ \A o, p \in OneofWrappers : o # p => o.ue_name # p.ue_name
           /\ \A o \in OneofWrappers, w \in BuiltWrappers : o.ue_name # wrappers[w].ue_name
           /\ generated \cap IdentifiersOf(object.symbol_table) = {}
           /\ generated \cap object.reserved_identifiers = {}

\* two distinct full names hold the same identifier
SharedIdentifier ==
    \E m, n \in DOMAIN object.symbol_table :
       m # n /\ object.symbol_table[m].ue_name = object.symbol_table[n].ue_name

\* one full name has been given two different identifiers
IdentifierChanged ==
    \E i, j \in DOMAIN log :
       log[i].full_name = log[j].full_name /\ log[i].ue_name # log[j].ue_name

\* C30: when the registration calls on one mapper are serialized, no state is
\* reached in which two distinct full names hold the same identifier or one
\* name has been given two different identifiers; each call then leaves the
\* package as it found it. Without serialization such a state is reachable
\* (C30_Witness).
C30_SerializedRegistrationIsSafe ==
    call.serialized =>
       /\ ~ SharedIdentifier
       /\ ~ IdentifierChanged
       /\ (\A t \in Threads : ~ InCall(t)) => object.package = None

\* two calls that were not serialized have ended: a thread was preempted
\* between _resolve_type_name and the write of the symbol table, a.Thing and
\* b.Thing both hold FThing, and a.Thing was given FProtoThing before
C30_Witness ==
    /\ ~ call.serialized
    /\ \A t \in Threads : call.threads[t].todo = << >> /\ call.threads[t].err = "none"
    /\ SharedIdentifier
    /\ IdentifierChanged
    /\ object.symbol_table[<<"a",".","T","h","i","n","g">>].ue_name = <<"F","T","h","i","n","g">>
    /\ object.symbol_table[<<"b",".","T","h","i","n","g">>].ue_name = <<"F","T","h","i","n","g">>
    /\ \E i \in DOMAIN log : log[i].full_name = <<"a",".","T","h","i","n","g">> /\ log[i].ue_name = <<"F","P","r","o","t","o","T","h","i","n","g">>

============================================================================
